---- MODULE Spec2Model ----
(***************************************************************************)
(* Model of the commit-history metrics pipeline of repo-metrics:           *)
(* the classifier, the line and test-case counters, the blob metrics       *)
(* cache, computeMetricsForCommit and the driver loop of main.             *)
(*                                                                         *)
(* A JavaScript string is a sequence of one-character strings; the         *)
(* control characters are written "LF", "CR", "TAB" and "NUL".  All        *)
(* characters are ASCII, so the length of the UTF-8 buffer of a string is  *)
(* the length of the sequence.  Indices of the JavaScript helpers are      *)
(* 0-based as in the source.                                               *)
(***************************************************************************)
EXTENDS Integers, Sequences, FiniteSets, TLC

\* ---------------------------------------------------------------- strings
UpperAlpha == <<"A","B","C","D","E","F","G","H","I","J","K","L","M","N","O","P","Q","R","S","T","U","V","W","X","Y","Z">>
LowerAlpha == <<"a","b","c","d","e","f","g","h","i","j","k","l","m","n","o","p","q","r","s","t","u","v","w","x","y","z">>
Digits == <<"0","1","2","3","4","5","6","7","8","9">>

Range(s) == {s[i] : i \in 1..Len(s)}

\* String.prototype.toLowerCase, one character
LowerChar(c) ==
  IF c \in Range(UpperAlpha)
    THEN LowerAlpha[CHOOSE i \in 1..26 : UpperAlpha[i] = c]
    ELSE c

toLowerCase(s) == [i \in 1..Len(s) |-> LowerChar(s[i])]

\* String.prototype.slice(a, b) for 0 <= a, b
slice(s, a, b) ==
  LET hi == IF b > Len(s) THEN Len(s) ELSE b
  IN  IF a >= hi THEN <<>> ELSE SubSeq(s, a + 1, hi)

startsWith(s, pref) == Len(pref) <= Len(s) /\ SubSeq(s, 1, Len(pref)) = pref

endsWith(s, sfx) ==
  Len(sfx) <= Len(s) /\ SubSeq(s, Len(s) - Len(sfx) + 1, Len(s)) = sfx

includes(s, h) ==
  \E i \in 0..(Len(s) - Len(h)) : SubSeq(s, i + 1, i + Len(h)) = h

\* String.prototype.lastIndexOf for a one-character needle, -1 when absent
lastIndexOf(s, c) ==
  IF \E i \in 1..Len(s) : s[i] = c
    THEN (CHOOSE i \in 1..Len(s) : s[i] = c /\ \A j \in (i+1)..Len(s) : s[j] # c) - 1
    ELSE -1

\* String.prototype.split for a one-character separator
RECURSIVE splitChar(_, _)
splitChar(s, c) ==
  IF \E i \in 1..Len(s) : s[i] = c
    THEN LET i == CHOOSE k \in 1..Len(s) : s[k] = c /\ \A j \in 1..(k-1) : s[j] # c
         IN  <<SubSeq(s, 1, i - 1)>> \o splitChar(SubSeq(s, i + 1, Len(s)), c)
    ELSE <<s>>

\* the characters \s matches, as far as the model's texts use them
WhiteSpace == {" ", "TAB", "LF", "CR"}

\* String.prototype.trim
RECURSIVE trimStart(_)
trimStart(s) ==
  IF Len(s) > 0 /\ s[1] \in WhiteSpace THEN trimStart(Tail(s)) ELSE s

RECURSIVE trimEnd(_)
trimEnd(s) ==
  IF Len(s) > 0 /\ s[Len(s)] \in WhiteSpace
    THEN trimEnd(SubSeq(s, 1, Len(s) - 1))
    ELSE s

trim(s) == trimEnd(trimStart(s))

\* text.split(/\r?\n/): split at LF, a CR right before the LF belongs to
\* the separator
splitLines(text) ==
  LET raw == splitChar(text, "LF")
      n   == Len(raw)
  IN  [i \in 1..n |->
        IF i < n /\ Len(raw[i]) > 0 /\ raw[i][Len(raw[i])] = "CR"
          THEN SubSeq(raw[i], 1, Len(raw[i]) - 1)
          ELSE raw[i]]

\* ------------------------------------------------------------- metrics.ts
CODE_EXTS ==
  { <<"p","y">>, <<"j","s">>, <<"j","s","x">>, <<"t","s">>, <<"t","s","x">>, <<"m","j","s">>, <<"c","j","s">>, <<"j","a","v","a">>, <<"k","t">>,
    <<"k","t","s">>, <<"s","c","a","l","a">>, <<"c">>, <<"c","c">>, <<"c","p","p">>, <<"c","x","x">>, <<"h">>, <<"h","h">>, <<"h","p","p">>,
    <<"h","x","x">>, <<"c","s">>, <<"g","o">>, <<"r","s">>, <<"s","w","i","f","t">>, <<"m">>, <<"m","m">>, <<"r","b">>, <<"p","h","p">>,
    <<"s","h">>, <<"b","a","s","h">>, <<"z","s","h">>, <<"s","q","l">> }

\* variant: the extension m listed as documentation as well
DOC_EXTS_WithM == { <<"m","d">>, <<"m","a","r","k","d","o","w","n">>, <<"m","d","x">>, <<"m">> }

DOC_EXTS == { <<"m","d">>, <<"m","a","r","k","d","o","w","n">>, <<"m","d","x">> }

SKIP_DIR_FRAGMENTS ==
  { <<".","g","i","t">>, <<"n","o","d","e","_","m","o","d","u","l","e","s">>, <<"v","e","n","d","o","r">>, <<"t","h","i","r","d","_","p","a","r","t","y">>, <<"d","i","s","t">>, <<"b","u","i","l","d">>,
    <<"o","u","t">>, <<"t","a","r","g","e","t">>, <<"b","i","n">>, <<"o","b","j">>, <<".","v","e","n","v">>, <<"v","e","n","v">>, <<"_","_","p","y","c","a","c","h","e","_","_">>,
    <<"P","o","d","s">>, <<".","i","d","e","a">>, <<".","v","s","c","o","d","e">> }

TEST_DIR_HINTS ==
  { <<"t","e","s","t">>, <<"t","e","s","t","s">>, <<"_","_","t","e","s","t","s","_","_">>, <<"s","p","e","c">>, <<"s","p","e","c","s">>,
    <<"i","n","t","e","g","r","a","t","i","o","n","-","t","e","s","t","s">>, <<"e","2","e">>, <<"a","c","c","e","p","t","a","n","c","e">> }

TEST_FILE_SUFFIXES == { <<"_","t","e","s","t">>, <<".","t","e","s","t">>, <<".","s","p","e","c">>, <<"S","p","e","c">>, <<"T","e","s","t","s">> }

TEST_FILE_PREFIXES == { <<"t","e","s","t","_">>, <<"s","p","e","c","_">> }

HashExts == { <<"p","y">>, <<"r","b">>, <<"s","h">>, <<"b","a","s","h">>, <<"z","s","h">> }
SlashExts ==
  { <<"j","s">>, <<"j","s","x">>, <<"t","s">>, <<"t","s","x">>, <<"j","a","v","a">>, <<"k","t">>, <<"k","t","s">>, <<"s","c","a","l","a">>, <<"c">>,
    <<"c","c">>, <<"c","p","p">>, <<"c","x","x">>, <<"h">>, <<"h","h">>, <<"h","p","p">>, <<"h","x","x">>, <<"g","o">>, <<"r","s">>,
    <<"s","w","i","f","t">>, <<"m">>, <<"m","m">>, <<"c","s">> }

\* COMMENT_PREFIXES_BY_EXT[ext] ?? []
COMMENT_PREFIXES_BY_EXT(ext) ==
  IF ext \in HashExts THEN { <<"#">> }
  ELSE IF ext \in SlashExts THEN { <<"/","/">> }
  ELSE IF ext = <<"p","h","p">> THEN { <<"/","/">>, <<"#">> }
  ELSE IF ext = <<"s","q","l">> THEN { <<"-","-">> }
  ELSE {}

\* path.extname on a POSIX path without trailing slash, then lower-cased
\* and stripped of the leading dot
extOf(p) ==
  LET segs == splitChar(p, "/")
      base == segs[Len(segs)]
      dot  == lastIndexOf(base, ".")
  IN  IF dot <= 0 \/ base = <<".",".">>
        THEN <<>>
        ELSE toLowerCase(slice(base, dot + 1, Len(base)))

\* path.normalize(p).split(path.sep) on POSIX: empty and "." segments
\* disappear, ".." removes the segment before it
RECURSIVE normalizeSegs(_, _)
normalizeSegs(segs, acc) ==
  IF segs = <<>> THEN acc
  ELSE LET h == Head(segs)
       IN  IF h = <<>> \/ h = <<".">> THEN normalizeSegs(Tail(segs), acc)
           ELSE IF h = <<".",".">> /\ Len(acc) > 0 /\ acc[Len(acc)] # <<".",".">>
             THEN normalizeSegs(Tail(segs), SubSeq(acc, 1, Len(acc) - 1))
           ELSE normalizeSegs(Tail(segs), Append(acc, h))

pathShouldSkip(p) ==
  LET parts == normalizeSegs(splitChar(p, "/"), <<>>)
  IN  \E i \in 1..Len(parts) : toLowerCase(parts[i]) \in SKIP_DIR_FRAGMENTS

\* variant: the file name is searched for the directory hints as well
isTestPath_AllParts(p) ==
  LET parts    == splitChar(p, "/")
      filename == parts[Len(parts)]
      dot      == lastIndexOf(filename, ".")
      base     == IF dot >= 0 THEN slice(filename, 0, dot) ELSE filename
  IN  \/ \E i \in 1..Len(parts) :
           LET low == toLowerCase(parts[i])
           IN  low \in TEST_DIR_HINTS \/ \E h \in TEST_DIR_HINTS : includes(low, h)
      \/ \E pref \in TEST_FILE_PREFIXES : startsWith(base, pref)
      \/ \E sfx \in TEST_FILE_SUFFIXES : endsWith(base, sfx)

\* variant: only the directories of the path are looked at
isTestPath_DirsOnly(p) ==
  LET parts == splitChar(p, "/")
  IN  \E i \in 1..(Len(parts) - 1) :
        LET low == toLowerCase(parts[i])
        IN  low \in TEST_DIR_HINTS \/ \E h \in TEST_DIR_HINTS : includes(low, h)

isTestPath(p) ==
  LET parts    == splitChar(p, "/")
      filename == parts[Len(parts)]
      dot      == lastIndexOf(filename, ".")
      base     == IF dot >= 0 THEN slice(filename, 0, dot) ELSE filename
  IN  \/ \E i \in 1..(Len(parts) - 1) :
           LET low == toLowerCase(parts[i])
           IN  low \in TEST_DIR_HINTS \/ \E h \in TEST_DIR_HINTS : includes(low, h)
      \/ \E pref \in TEST_FILE_PREFIXES : startsWith(base, pref)
      \/ \E sfx \in TEST_FILE_SUFFIXES : endsWith(base, sfx)

\* variant: the comment prefix is looked for in the untrimmed line
countCodeLoc_NoTrim(text, ext) ==
  LET prefixes == COMMENT_PREFIXES_BY_EXT(ext)
      counted(line) ==
        trim(line) # <<>> /\ ~ \E pref \in prefixes : startsWith(line, pref)
  IN  Cardinality({i \in 1..Len(splitLines(text)) : counted(splitLines(text)[i])})

countCodeLoc(text, ext) ==
  LET prefixes == COMMENT_PREFIXES_BY_EXT(ext)
      counted(line) ==
        LET s == trim(line)
        IN  s # <<>> /\ ~ \E pref \in prefixes : startsWith(s, pref)
  IN  Cardinality({i \in 1..Len(splitLines(text)) : counted(splitLines(text)[i])})

\* variant: a line of blanks counts as documentation
countDocLoc_NoTrim(text) ==
  LET counted(line) == Len(line) > 0
  IN  Cardinality({i \in 1..Len(splitLines(text)) : counted(splitLines(text)[i])})

countDocLoc(text) ==
  LET counted(line) == Len(trim(line)) > 0
  IN  Cardinality({i \in 1..Len(splitLines(text)) : counted(splitLines(text)[i])})


\* ------------------------------------------------- regular expressions
\* A pattern is a sequence of elements:
\*   bol  ^ under the m flag        eol  $ under the m flag
\*   wb   \b                        lit  a literal string
\*   cls  one character of a class  rep  greedy repetition of a class, at
\*   alt  ordered alternation of literals        least min characters
LineTerminators == {"LF", "CR"}
WordChars == Range(UpperAlpha) \cup Range(LowerAlpha) \cup Range(Digits) \cup {"_"}

Bol == [t |-> "bol"]
Eol == [t |-> "eol"]
Wb == [t |-> "wb"]
Lit(s) == [t |-> "lit", s |-> s]
Cls(c) == [t |-> "cls", c |-> c]
Rep(c, min) == [t |-> "rep", c |-> c, min |-> min]
Alt(a) == [t |-> "alt", a |-> a]

LitAt(text, i, s) == i + Len(s) - 1 <= Len(text) /\ SubSeq(text, i, i + Len(s) - 1) = s

IsWordAt(text, j) == j >= 1 /\ j <= Len(text) /\ text[j] \in WordChars

\* length of the longest run of characters of class c that starts at i
RunLen(text, i, c) ==
  LET stop == CHOOSE j \in i..(Len(text) + 1) :
                /\ (j = Len(text) + 1 \/ text[j] \notin c)
                /\ \A k \in i..(j - 1) : text[k] \in c
  IN  stop - i

SetMin(S) == CHOOSE x \in S : \A y \in S : x <= y
SetMax(S) == CHOOSE x \in S : \A y \in S : x >= y

\* MatchEnd(pat, k, text, i): the elements k.. of pat match text at position
\* i (1-based); the result is the position after the match that a
\* backtracking matcher finds first, 0 when there is none
RECURSIVE MatchEnd(_, _, _, _)
MatchEnd(pat, k, text, i) ==
  IF k > Len(pat) THEN i
  ELSE LET e == pat[k]
       IN  CASE e.t = "bol" ->
                  IF i = 1 \/ text[i - 1] \in LineTerminators
                    THEN MatchEnd(pat, k + 1, text, i) ELSE 0
             [] e.t = "eol" ->
                  IF i = Len(text) + 1 \/ text[i] \in LineTerminators
                    THEN MatchEnd(pat, k + 1, text, i) ELSE 0
             [] e.t = "wb" ->
                  IF IsWordAt(text, i - 1) # IsWordAt(text, i)
                    THEN MatchEnd(pat, k + 1, text, i) ELSE 0
             [] e.t = "lit" ->
                  IF LitAt(text, i, e.s)
                    THEN MatchEnd(pat, k + 1, text, i + Len(e.s)) ELSE 0
             [] e.t = "cls" ->
                  IF i <= Len(text) /\ text[i] \in e.c
                    THEN MatchEnd(pat, k + 1, text, i + 1) ELSE 0
             [] e.t = "rep" ->
                  LET ok == {n \in e.min..RunLen(text, i, e.c) :
                               MatchEnd(pat, k + 1, text, i + n) # 0}
                  IN  IF ok = {} THEN 0
                      ELSE MatchEnd(pat, k + 1, text, i + SetMax(ok))
             [] e.t = "alt" ->
                  LET ok == {a \in 1..Len(e.a) :
                               /\ LitAt(text, i, e.a[a])
                               /\ MatchEnd(pat, k + 1, text, i + Len(e.a[a])) # 0}
                  IN  IF ok = {} THEN 0
                      ELSE MatchEnd(pat, k + 1, text, i + Len(e.a[SetMin(ok)]))

\* text.match(re) with the g flag: the number of non-overlapping matches,
\* scanning from position pos
RECURSIVE CountMatches(_, _, _)
CountMatches(pat, text, pos) ==
  LET starts == {i \in pos..(Len(text) + 1) : MatchEnd(pat, 1, text, i) # 0}
  IN  IF starts = {} THEN 0
      ELSE LET i == SetMin(starts)
               e == MatchEnd(pat, 1, text, i)
           IN  1 + CountMatches(pat, text, IF e = i THEN i + 1 ELSE e)

Upper == Range(UpperAlpha)

RePyDef == <<Bol, Rep(WhiteSpace, 0), Lit(<<"d","e","f">>), Rep(WhiteSpace, 1), Lit(<<"t","e","s","t","_">>),
             Rep(WordChars, 1), Rep(WhiteSpace, 0), Lit(<<"(">>)>>
RePyClass == <<Bol, Rep(WhiteSpace, 0), Lit(<<"c","l","a","s","s">>), Rep(WhiteSpace, 1), Lit(<<"T","e","s","t">>),
               Rep(WordChars, 0), Rep(WhiteSpace, 0), Cls({":", "("})>>
ReItTest == <<Wb, Alt(<<<<"i","t">>, <<"t","e","s","t">>>>), Rep(WhiteSpace, 0), Lit(<<"(">>)>>
ReAtTest == <<Lit(<<"@","T","e","s","t">>), Wb>>
ReAtParameterizedTest == <<Lit(<<"@","P","a","r","a","m","e","t","e","r","i","z","e","d","T","e","s","t">>), Wb>>
ReGoFunc == <<Bol, Rep(WhiteSpace, 0), Lit(<<"f","u","n","c">>), Rep(WhiteSpace, 1), Lit(<<"T","e","s","t">>),
              Cls(Upper), Rep(WordChars, 0), Rep(WhiteSpace, 0), Lit(<<"(">>)>>
ReRbDef == <<Bol, Rep(WhiteSpace, 0), Lit(<<"d","e","f">>), Rep(WhiteSpace, 1), Lit(<<"t","e","s","t","_">>),
             Rep(WordChars, 1), Rep(WhiteSpace, 0), Eol>>
ReRbIt == <<Bol, Rep(WhiteSpace, 0), Lit(<<"i","t">>), Rep(WhiteSpace, 1), Cls({"'", "\""})>>
ReSwiftFunc == <<Bol, Rep(WhiteSpace, 0), Lit(<<"f","u","n","c">>), Rep(WhiteSpace, 1), Lit(<<"t","e","s","t">>),
                 Cls(Upper), Rep(WordChars, 0), Rep(WhiteSpace, 0), Lit(<<"(">>)>>
ReCsAttr == <<Lit(<<"[">>), Alt(<<<<"F","a","c","t">>, <<"T","h","e","o","r","y">>, <<"T","e","s","t">>, <<"T","e","s","t","C","a","s","e">>>>), Lit(<<"]">>)>>
ReRsTest == <<Lit(<<"#","[","t","e","s","t","]">>)>>
RePhpAtTest == <<Lit(<<"@","t","e","s","t">>), Wb>>
RePhpFunc == <<Bol, Rep(WhiteSpace, 0), Lit(<<"p","u","b","l","i","c">>), Rep(WhiteSpace, 1), Lit(<<"f","u","n","c","t","i","o","n">>),
               Rep(WhiteSpace, 1), Lit(<<"t","e","s","t">>), Cls(Upper)>>
ReGTest == <<Wb, Lit(<<"T","E","S","T">>), Alt(<<<<"_","F">>, <<"_","P">>, <<"_","S">>, <<>>>>), Rep(WhiteSpace, 0), Lit(<<"(">>)>>
\* /\bTEST\b/gi is matched against the lower-cased text
ReSqlTest == <<Wb, Lit(<<"t","e","s","t">>), Wb>>

\* TEST_CASE_PATTERNS[ext] ?? []
TEST_CASE_PATTERNS(ext) ==
  IF ext = <<"p","y">> THEN <<RePyDef, RePyClass>>
  ELSE IF ext \in { <<"j","s">>, <<"t","s">>, <<"j","s","x">>, <<"t","s","x">>, <<"m","j","s">>, <<"c","j","s">>, <<"s","c","a","l","a">> } THEN <<ReItTest>>
  ELSE IF ext \in { <<"j","a","v","a">>, <<"k","t">>, <<"k","t","s">> } THEN <<ReAtTest, ReAtParameterizedTest>>
  ELSE IF ext = <<"g","o">> THEN <<ReGoFunc>>
  ELSE IF ext = <<"r","b">> THEN <<ReRbDef, ReRbIt>>
  ELSE IF ext = <<"s","w","i","f","t">> THEN <<ReSwiftFunc>>
  ELSE IF ext = <<"c","s">> THEN <<ReCsAttr>>
  ELSE IF ext = <<"r","s">> THEN <<ReRsTest>>
  ELSE IF ext = <<"p","h","p">> THEN <<RePhpAtTest, RePhpFunc>>
  ELSE IF ext \in { <<"c">>, <<"c","p","p">>, <<"c","c">>, <<"c","x","x">>, <<"h">>, <<"h","h">>, <<"h","p","p">>, <<"h","x","x">> } THEN <<ReGTest>>
  ELSE IF ext = <<"s","q","l">> THEN <<ReSqlTest>>
  ELSE <<>>

RECURSIVE SumSeq(_)
SumSeq(s) == IF s = <<>> THEN 0 ELSE Head(s) + SumSeq(Tail(s))

countTestCases(text, ext) ==
  LET patterns == TEST_CASE_PATTERNS(ext)
      subject  == IF ext = <<"s","q","l">> THEN toLowerCase(text) ELSE text
  IN  SumSeq([k \in 1..Len(patterns) |-> CountMatches(patterns[k], subject, 1)])

\* Buffer.includes(0)
\* variant: only the first byte is inspected
seemsBinary_FirstByte(buf) == Len(buf) > 0 /\ buf[1] = "NUL"

seemsBinary(buf) == \E i \in 1..Len(buf) : buf[i] = "NUL"


\* ------------------------------------------------------------- git.ts
\* result of git.raw: ok = FALSE when the git command fails (it throws)
GitFailure == [ok |-> FALSE, out |-> <<>>]
GitOutput(out) == [ok |-> TRUE, out |-> out]

\* string | null
\* string | null, or the exception the call throws
NullText == [null |-> TRUE, text |-> <<>>, threw |-> FALSE]
Text(t) == [null |-> FALSE, text |-> t, threw |-> FALSE]
Thrown == [null |-> TRUE, text |-> <<>>, threw |-> TRUE]

\* variant: without the try/catch around git.raw
catBlob_NoCatch(raw, maxBytes) ==
  IF ~raw.ok THEN Thrown
  ELSE IF raw.out = <<>> THEN NullText
  ELSE IF Len(raw.out) > maxBytes THEN NullText
  ELSE IF seemsBinary(raw.out) THEN NullText
  ELSE Text(raw.out)

\* variant: the length of the content is not compared with the ceiling
catBlob_NoCeiling(raw, maxBytes) ==
  IF ~raw.ok THEN NullText
  ELSE IF raw.out = <<>> THEN NullText
  ELSE IF seemsBinary(raw.out) THEN NullText
  ELSE Text(raw.out)

catBlob(raw, maxBytes) ==
  IF ~raw.ok THEN NullText
  ELSE IF raw.out = <<>> THEN NullText
  ELSE IF Len(raw.out) > maxBytes THEN NullText
  ELSE IF seemsBinary(raw.out) THEN NullText
  ELSE Text(raw.out)

\* TreeEntry[], or the exception the call throws.  The text git ls-tree
\* prints is represented by the entries its lines parse to.
Entries(es) == [entries |-> es, threw |-> FALSE]
ListTreeThrown == [entries |-> <<>>, threw |-> TRUE]

\* variant: a failing git ls-tree is taken for an empty tree
listTree_Swallow(raw) == IF ~raw.ok THEN Entries(<<>>) ELSE Entries(raw.out)

listTree(raw) == IF ~raw.ok THEN ListTreeThrown ELSE Entries(raw.out)

\* ------------------------------------------------- computeMetricsForCommit
\* TreeEntry.size is null for entries git prints without a size
NullSize == -1

ZeroMetrics == [codeLoc |-> 0, testCases |-> 0, docLoc |-> 0]

\* the continue statements before the cache lookup
\* variant: the directory skip is applied to documentation too
FilteredOut_SkipDocs(e, maxFileBytes) ==
  LET ext == extOf(e.path)
  IN  \/ e.type # "blob"
      \/ (ext \notin CODE_EXTS /\ ext \notin DOC_EXTS)
      \/ pathShouldSkip(e.path)
      \/ (e.size # NullSize /\ e.size > maxFileBytes)

\* variant: the size of an entry is not compared with the ceiling
FilteredOut_NoSizeCheck(e, maxFileBytes) ==
  LET ext == extOf(e.path)
  IN  \/ e.type # "blob"
      \/ (ext \notin CODE_EXTS /\ ext \notin DOC_EXTS)
      \/ (ext \notin DOC_EXTS /\ pathShouldSkip(e.path))

\* variant: the extension of an entry is not looked at
FilteredOut_AnyExt(e, maxFileBytes) ==
  LET ext == extOf(e.path)
  IN  \/ e.type # "blob"
      \/ (ext \notin DOC_EXTS /\ pathShouldSkip(e.path))
      \/ (e.size # NullSize /\ e.size > maxFileBytes)

FilteredOut(e, maxFileBytes) ==
  LET ext == extOf(e.path)
  IN  \/ e.type # "blob"
      \/ (ext \notin CODE_EXTS /\ ext \notin DOC_EXTS)
      \/ (ext \notin DOC_EXTS /\ pathShouldSkip(e.path))
      \/ (e.size # NullSize /\ e.size > maxFileBytes)

\* the metrics stored on a cache miss
ComputeBlobMetrics(text, ext, entryIsCode, entryIsDoc) ==
  IF text.null THEN ZeroMetrics
  ELSE [codeLoc   |-> IF entryIsCode THEN countCodeLoc(text.text, ext) ELSE 0,
        testCases |-> IF entryIsCode THEN countTestCases(text.text, ext) ELSE 0,
        docLoc    |-> IF entryIsDoc THEN countDocLoc(text.text) ELSE 0]

\* the accumulation of one entry into the three totals
\* variant: a test file also adds its code lines to nonTestLoc
Accumulate_Both(tot, p, entryIsDoc, entryIsCode, metrics) ==
  IF entryIsDoc
    THEN [tot EXCEPT !.docLoc = @ + metrics.docLoc]
    ELSE IF entryIsCode
      THEN IF isTestPath(p)
             THEN [tot EXCEPT !.totalTests = @ + metrics.testCases,
                              !.nonTestLoc = @ + metrics.codeLoc]
             ELSE [tot EXCEPT !.nonTestLoc = @ + metrics.codeLoc]
      ELSE tot

Accumulate(tot, p, entryIsDoc, entryIsCode, metrics) ==
  IF entryIsDoc
    THEN [tot EXCEPT !.docLoc = @ + metrics.docLoc]
    ELSE IF entryIsCode
      THEN IF isTestPath(p)
             THEN [tot EXCEPT !.totalTests = @ + metrics.testCases]
             ELSE [tot EXCEPT !.nonTestLoc = @ + metrics.codeLoc]
      ELSE tot

\* blobCache.get(sha) is defined
\* variant: the cache is never consulted
CacheHit_Never(cache, sha) == FALSE

CacheHit(cache, sha) == sha \in DOMAIN cache

\* variant: the cache holds the last content identity only
MapSet_Evict(m, k, v) == [x \in {k} |-> v]

\* Map.prototype.set
MapSet(m, k, v) == [x \in (DOMAIN m) \cup {k} |-> IF x = k THEN v ELSE m[x]]


\* ------------------------------------------------------------ the inputs
\* bounds of the command lines tried
MaxWindow == 2
MaxSampleEvery == 2

Chars(c, n) == [k \in 1..n |-> c]

\* blob contents by content identity
Blobs ==
  [b_foo    |-> <<"#"," ","c","o","m","m","e","n","t","LF","d","e","f"," ","f","(",")",":","LF"," "," ","r","e","t","u","r","n"," ","1","LF">>,
   b_test   |-> <<"d","e","f"," ","t","e","s","t","_","o","n","e","(",")",":","LF"," "," ","a","s","s","e","r","t"," ","T","r","u","e","LF">>,
   b_readme |-> <<"#"," ","h","e","l","l","o","LF","t","e","x","t","LF">>,
   b_njs    |-> <<"v","a","r"," ","a",";","LF">>,
   b_nmd    |-> <<"d","o","c","LF","LF","m","o","r","e","LF">>,
   b_bin    |-> <<"x"," ","="," ","1","LF","NUL","y"," ","="," ","2","LF">>,
   b_png    |-> <<"P","N","G","NUL","NUL">>,
   b_ts     |-> <<"i","t","(","'","x","'",","," ","f",")",";","LF">>,
   b_m      |-> <<"i","n","t"," ","a",";","LF","/","/"," ","c","LF">>,
   b_guide  |-> <<"#"," ","g","u","i","d","e","LF","l","i","n","e"," ","o","n","e","LF","l","i","n","e"," ","2","LF">>,
   b_latin  |-> <<"a"," ","="," ","'","xEF","xBF","xBD","'","LF","b"," ","="," ","'","xEF","xBF","xBD","'","LF","#","LF">>,
   b_mjs    |-> <<"/","/"," ","c","LF","v","a","r"," ","a",";","LF">>,
   b_empty  |-> <<>>]

Blob(path, sha) ==
  [type |-> "blob", sha |-> sha, size |-> Len(Blobs[sha]), path |-> path]

\* a blob that is not valid UTF-8: ls-tree prints its size in the
\* repository, and the text cat-file gives, once decoded and encoded again,
\* holds three bytes for each byte that could not be decoded
RecodedBlob(path, sha, diskSize) ==
  [type |-> "blob", sha |-> sha, size |-> diskSize, path |-> path]

CA1 == <<"a","1","0","0","0","0","0","0","0","0","0","0","f","f">>
CA2 == <<"a","2","0","0","0","0","0","0","0","0","0","0","f","f">>
CA3 == <<"a","3","0","0","0","0","0","0","0","0","0","0","f","f">>
CB1 == <<"b","1","0","0","0","0","0","0","0","0","0","0","f","f">>
CB2 == <<"b","2","0","0","0","0","0","0","0","0","0","0","f","f">>
CB3 == <<"b","3","0","0","0","0","0","0","0","0","0","0","f","f">>

\* the repositories: commit list (oldest first) and, per commit, the tree
\* that git ls-tree -r -l prints, the committer date and the message
Repos ==
  [A |-> <<
     [id |-> CA1, date |-> [local |-> 100, off |-> 2],
      msg |-> Chars("m", 10) \o <<"LF">>,
      tree |-> << Blob(<<"f","o","o",".","p","y">>, "b_foo"),
                  Blob(<<"t","e","s","t","_","f","o","o",".","p","y">>, "b_test"),
                  Blob(<<"R","E","A","D","M","E",".","m","d">>, "b_readme") >>],
     [id |-> CA2, date |-> [local |-> 200, off |-> 0],
      msg |-> Chars("m", 20) \o <<"LF", "LF">>,
      tree |-> << Blob(<<"f","o","o",".","p","y">>, "b_foo"),
                  Blob(<<"n","o","d","e","_","m","o","d","u","l","e","s","/","l","i","b","/","x",".","j","s">>, "b_njs"),
                  Blob(<<"n","o","d","e","_","m","o","d","u","l","e","s","/","l","i","b","/","R","E","A","D","M","E",".","m","d">>, "b_nmd"),
                  Blob(<<"i","m","g",".","p","y">>, "b_bin"),
                  Blob(<<"l","o","g","o",".","p","n","g">>, "b_png"),
                  Blob(<<"P","o","d","s","/","A","p","p",".","m">>, "b_m"),
                  [type |-> "commit", sha |-> "sub1", size |-> NullSize,
                   path |-> <<"s","u","b",".","j","s">>] >>],
     [id |-> CA3, date |-> [local |-> 300, off |-> -1],
      msg |-> Chars("m", 30),
      tree |-> << Blob(<<"R","E","A","D","M","E",".","m","d">>, "b_readme"),
                  Blob(<<"f","o","o",".","p","y">>, "b_foo"),
                  Blob(<<"n","o","t","e","s",".","m","d">>, "b_foo"),
                  Blob(<<"t","e","s","t","s","/","u","t","i","l",".","j","s">>, "b_njs"),
                  Blob(<<"e","m","p","t","y",".","p","y">>, "b_empty") >>] >>,
   B |-> <<
     [id |-> CB1, date |-> [local |-> 10, off |-> 1],
      msg |-> <<"i","n","i","t","LF">>,
      tree |-> << Blob(<<"R","E","A","D","M","E",".","m","d">>, "b_readme"),
                  Blob(<<"d","o","c","s","/","G","U","I","D","E",".","m","d">>, "b_guide"),
                  RecodedBlob(<<"l","a","t","i","n",".","p","y">>, "b_latin", 18) >>],
     [id |-> CB2, date |-> [local |-> 20, off |-> 1],
      msg |-> <<"m","o","r","e"," ","LF">>,
      tree |-> << Blob(<<"N","O","T","E","S",".","m","d">>, "b_ts"),
                  Blob(<<"R","E","A","D","M","E",".","m","d">>, "b_readme"),
                  Blob(<<"a",".","s","p","e","c",".","t","s">>, "b_ts") >>],
     [id |-> CB3, date |-> [local |-> 30, off |-> 1],
      msg |-> <<"l","a","s","t">>,
      tree |-> << Blob(<<"a",".","s","p","e","c",".","t","s">>, "b_ts"),
                  Blob(<<"b","u","i","l","d","/","g","e","n",".","t","s">>, "b_ts"),
                  Blob(<<"v","e","n","d","o","r","/","N","O","T","E","S",".","M","D">>, "b_nmd"),
                  RecodedBlob(<<"l","a","t","i","n",".","p","y">>, "b_latin", 18) >>] >>,
   E |-> << >>]

MaxFileBytesChoices == {20, 1000000}

\* the repository record of a commit id
CommitOf(repo, c) ==
  Repos[repo][CHOOSE k \in 1..Len(Repos[repo]) : Repos[repo][k].id = c]


\* ---------------------------------------------------------------- cli.ts
\* the value parseInt gives for an option
NaN == [nan |-> TRUE, v |-> 0]
Num(v) == [nan |-> FALSE, v |-> v]

DefaultMsgAvgWindow == 50

\* the command lines tried: the repository, whether it is named by a URL,
\* and the options
RawArgs ==
  [repo : DOMAIN Repos, isUrl : BOOLEAN, dryRun : BOOLEAN, keepTemp : BOOLEAN,
   assets : BOOLEAN,
   sampleEvery : {NaN} \cup {Num(v) : v \in 0..MaxSampleEvery},
   msgAvgWindow : {NaN} \cup {Num(v) : v \in 0..MaxWindow},
   maxFileBytes : MaxFileBytesChoices]

parseArgs(a) ==
  [a EXCEPT !.sampleEvery = IF @.nan \/ @.v < 1 THEN 1 ELSE @.v,
            !.msgAvgWindow = IF @.nan \/ @.v < 1 THEN DefaultMsgAvgWindow ELSE @.v]

\* 'metrics', the fallback of sanitizeOutputPrefix
Metrics == <<"m","e","t","r","i","c","s">>

\* the characters /[^A-Za-z0-9._-]/ does not match
SafeChars == Range(UpperAlpha) \cup Range(LowerAlpha) \cup Range(Digits) \cup {".", "_", "-"}

RECURSIVE stripLeading(_)
\* the while loop that removes leading ./ and ../
stripLeading(s) ==
  IF startsWith(s, <<".", "/">>) THEN stripLeading(slice(s, 2, Len(s)))
  ELSE IF startsWith(s, <<".", ".", "/">>) THEN stripLeading(slice(s, 3, Len(s)))
  ELSE s

RECURSIVE join(_, _)
\* Array.prototype.join
join(parts, sep) ==
  IF parts = <<>> THEN <<>>
  ELSE IF Len(parts) = 1 THEN parts[1]
  ELSE parts[1] \o sep \o join(Tail(parts), sep)

\* variant: the names . and .. are returned as they are
sanitizeOutputPrefix_NoDotCheck(p) ==
  IF p = <<>> THEN Metrics
  ELSE LET s      == stripLeading(p)
           parts  == SelectSeq(splitChar(s, "/"), LAMBDA x : x # <<>>)
           joined == IF join(parts, <<"_">>) # <<>> THEN join(parts, <<"_">>) ELSE s
           clean  == [k \in 1..Len(joined) |->
                        IF joined[k] \in SafeChars THEN joined[k] ELSE "_"]
       IN  IF clean = <<>> THEN Metrics ELSE clean

sanitizeOutputPrefix(p) ==
  IF p = <<>> THEN Metrics
  ELSE LET s      == stripLeading(p)
           parts  == SelectSeq(splitChar(s, "/"), LAMBDA x : x # <<>>)
           joined == IF join(parts, <<"_">>) # <<>> THEN join(parts, <<"_">>) ELSE s
           clean  == [k \in 1..Len(joined) |->
                        IF joined[k] \in SafeChars THEN joined[k] ELSE "_"]
       IN  IF clean = <<>> THEN Metrics
           ELSE IF clean = <<".">> \/ clean = <<".", ".">> THEN Metrics
           ELSE clean

\* undefined, or a path as its segments below the current directory
Undefined == [defined |-> FALSE, path |-> <<>>]
Defined(p) == [defined |-> TRUE, path |-> p]

RECURSIVE commonLen(_, _)
\* the number of leading segments two paths share
commonLen(a, b) ==
  IF a = <<>> \/ b = <<>> \/ Head(a) # Head(b) THEN 0
  ELSE 1 + commonLen(Tail(a), Tail(b))

\* path.relative(from, to) for two paths below the current directory
relative(from, to) ==
  LET n == commonLen(from, to)
  IN  [k \in 1..(Len(from) - n) |-> ".."] \o SubSeq(to, n + 1, Len(to))

\* variant: no try/catch around the file system calls
copyPlotlyToAssets_NoCatch(assetsDir, htmlDir, disk) ==
  IF ~disk.bundle
    THEN [threw |-> FALSE, ret |-> Undefined, dirMade |-> FALSE, copied |-> FALSE]
  ELSE IF ~disk.mkdirOk
    THEN [threw |-> TRUE, ret |-> Undefined, dirMade |-> FALSE, copied |-> FALSE]
  ELSE IF ~disk.copyOk
    THEN [threw |-> TRUE, ret |-> Undefined, dirMade |-> TRUE, copied |-> FALSE]
  ELSE [threw |-> FALSE,
        ret |-> Defined(relative(htmlDir, Append(assetsDir, "plotly.min.js"))),
        dirMade |-> TRUE, copied |-> TRUE]

\* copyPlotlyToAssets; disk tells whether the bundle is in node_modules and
\* whether mkdirSync and copyFileSync succeed
copyPlotlyToAssets(assetsDir, htmlDir, disk) ==
  IF ~disk.bundle
    THEN [threw |-> FALSE, ret |-> Undefined, dirMade |-> FALSE, copied |-> FALSE]
  ELSE IF ~disk.mkdirOk
    THEN [threw |-> FALSE, ret |-> Undefined, dirMade |-> FALSE, copied |-> FALSE]
  ELSE IF ~disk.copyOk
    THEN [threw |-> FALSE, ret |-> Undefined, dirMade |-> TRUE, copied |-> FALSE]
  ELSE [threw |-> FALSE,
        ret |-> Defined(relative(htmlDir, Append(assetsDir, "plotly.min.js"))),
        dirMade |-> TRUE, copied |-> TRUE]

\* writePlotlyHtml: the source of the script element; a source that is null,
\* undefined or the empty string is falsy
Truthy(src) == src.defined /\ src.path # <<>>
LocalCandidate == Defined(<<"node_modules", "plotly.js-dist-min", "plotly.min.js">>)
CdnSrc == Defined(<<"https://cdn.plot.ly/plotly-2.35.2.min.js">>)

resolvedPlotlySrc(plotlySrc, localExists) ==
  IF Truthy(plotlySrc) THEN plotlySrc
  ELSE IF localExists THEN LocalCandidate
  ELSE CdnSrc

\* ------------------------------------------------------- repo-metrics.ts
ShortShaLen == 12
ExitOk == 0
ExitError == 1
ExitBadPath == 2
ExitNoCommits == 4

Max(a, b) == IF a >= b THEN a ELSE b

\* commits.length === 0
\* variant: the empty list is not detected
NoWork_Never(list) == FALSE

NoWork(list) == Len(list) = 0

\* c.slice(0, 12)
\* variant: the 7-character abbreviation
ShortSha_Seven(c) == slice(c, 0, 7)

ShortSha(c) == slice(c, 0, ShortShaLen)

\* commits.filter((_, i) => (i % sampleEvery) === 0), i 0-based
RECURSIVE FilterSample(_, _, _)
FilterSample(list, idx, sampleEvery) ==
  IF list = <<>> THEN <<>>
  ELSE (IF idx % sampleEvery = 0 THEN <<Head(list)>> ELSE <<>>)
         \o FilterSample(Tail(list), idx + 1, sampleEvery)

\* variant: the positions are counted from 1, the first commit is dropped
SampleCommits_FromOne(list, sampleEvery) ==
  IF sampleEvery > 1 THEN FilterSample(list, 1, sampleEvery) ELSE list

\* the commit list main processes
SampleCommits(list, sampleEvery) ==
  IF sampleEvery > 1 THEN FilterSample(list, 0, sampleEvery) ELSE list

\* new Date(iso).toISOString(): the instant, without the zone offset
toISOString(d) == d.local - d.off

\* rawMsg.replace(/\s+$/s, '').length
MsgLen(rawMsg) == Len(trimEnd(rawMsg))

\* the update of the rolling window by one message length
\* variant: the value shifted out of the window stays in the sum
RollingPush_NoSubtract(window, sum, msgLen, win) ==
  LET w1 == Append(window, msgLen)
      s1 == sum + msgLen
  IN  IF Len(w1) > win
        THEN [window |-> Tail(w1), sum |-> s1]
        ELSE [window |-> w1, sum |-> s1]

RollingPush(window, sum, msgLen, win) ==
  LET w1 == Append(window, msgLen)
      s1 == sum + msgLen
  IN  IF Len(w1) > win
        THEN [window |-> Tail(w1), sum |-> s1 - Head(w1)]
        ELSE [window |-> w1, sum |-> s1]

VARIABLES
  args,          \* the parsed command line
  pc,            \* where main is suspended
  exitCode,      \* the exit code of the process once pc = "exited"
  err,           \* the operation whose failure ended the run, or "none"
  tmpExists,     \* the temporary clone directory exists
  commits,       \* main: the commit list to process
  i,             \* main: index of the commit in progress (0-based)
  entries,       \* computeMetricsForCommit: the tree listing
  ei,            \* computeMetricsForCommit: position of the for-of loop
  isDoc, isCode, \* computeMetricsForCommit: classification of the entry
  nonTestLoc, totalTests, docLoc,
  blobCache,
  catBlobCalls,  \* number of catBlob calls made per content identity
  isoUtc,
  msgLenWindow, msgLenSum,
  rows,
  csvFile, htmlFile,  \* the rows written to <prefix>.csv and <prefix>.html
  assetFile,     \* plotly.min.js was copied into the assets directory
  nullReads,     \* the content identities for which catBlob returned null
  calls,         \* computeMetricsForCommit calls in flight on one blobCache
  probe          \* a function under study: its input and, once applied, its result

vars == <<args, pc, exitCode, err, tmpExists, commits, i, entries, ei, isDoc,
          isCode, nonTestLoc, totalTests, docLoc, blobCache, catBlobCalls,
          isoUtc, msgLenWindow, msgLenSum, rows, csvFile, htmlFile, assetFile,
          nullReads, calls, probe>>

mainLocals == <<commits, i, isoUtc, msgLenWindow, msgLenSum, rows>>
callLocals == <<entries, ei, isDoc, isCode, nonTestLoc, totalTests, docLoc>>
cacheVars == <<blobCache, catBlobCalls, nullReads>>
files == <<csvFile, htmlFile, assetFile>>

Shas == DOMAIN Blobs
NoFile == [written |-> FALSE, rows |-> <<>>]
File(r) == [written |-> TRUE, rows |-> r]

\* the state of main and of the file system when the process starts
InitLocals ==
  /\ pc = "main"
  /\ exitCode = ExitOk
  /\ err = "none"
  /\ tmpExists = FALSE
  /\ commits = <<>>
  /\ i = 0
  /\ entries = <<>>
  /\ ei = 1
  /\ isDoc = FALSE
  /\ isCode = FALSE
  /\ nonTestLoc = 0
  /\ totalTests = 0
  /\ docLoc = 0
  /\ blobCache = <<>>
  /\ catBlobCalls = [s \in Shas |-> 0]
  /\ isoUtc = 0
  /\ msgLenWindow = <<>>
  /\ msgLenSum = 0
  /\ rows = <<>>
  /\ csvFile = NoFile
  /\ htmlFile = NoFile
  /\ assetFile = FALSE
  /\ nullReads = {}

\* no call runs beside main and no function is under study
NoCalls == <<>>
NoProbe == [op |-> "none"]

Init ==
  /\ args \in {parseArgs(a) : a \in RawArgs}
  /\ InitLocals
  /\ calls = NoCalls
  /\ probe = NoProbe

\* cleanup() as ensureRepo returns it
Cleanup == tmpExists' = (tmpExists /\ ~(args.isUrl /\ ~args.keepTemp))

\* an exception inside the try block of main: finally runs cleanup, the
\* rejection reaches main().catch and the process exits with code 1
Throw(cause) ==
  /\ pc' = "exited"
  /\ exitCode' = ExitError
  /\ err' = cause
  /\ Cleanup
  /\ UNCHANGED <<args, calls, probe, mainLocals, callLocals, cacheVars, files>>

\* main calls computeMetricsForCommit for commits[i]: the totals start at 0
\* and the call suspends in listTree
CallCompute ==
  /\ pc' = "listTree"
  /\ nonTestLoc' = 0
  /\ totalTests' = 0
  /\ docLoc' = 0

DryRun ==
  /\ pc = "main"
  /\ args.dryRun
  /\ pc' = "exited"
  /\ UNCHANGED <<args, calls, probe, exitCode, err, tmpExists, mainLocals, callLocals, cacheVars, files>>

\* ensureRepo for a URL: mkTempDir, then the clone is awaited
\* variant: --dry-run does not stop main before ensureRepo
EnsureRepoUrl_IgnoreDryRun ==
  /\ pc = "main"
  /\ args.isUrl
  /\ tmpExists' = TRUE
  /\ pc' = "clone"
  /\ UNCHANGED <<args, calls, probe, exitCode, err, mainLocals, callLocals, cacheVars, files>>

EnsureRepoUrl ==
  /\ pc = "main"
  /\ ~args.dryRun
  /\ args.isUrl
  /\ tmpExists' = TRUE
  /\ pc' = "clone"
  /\ UNCHANGED <<args, calls, probe, exitCode, err, mainLocals, callLocals, cacheVars, files>>

CloneReturns ==
  /\ pc = "clone"
  /\ pc' = "getRev"
  /\ UNCHANGED <<args, calls, probe, exitCode, err, tmpExists, mainLocals, callLocals, cacheVars, files>>

\* git.clone rejects: ensureRepo is awaited before the try block of main
CloneFails ==
  /\ pc = "clone"
  /\ pc' = "exited"
  /\ exitCode' = ExitError
  /\ err' = "clone"
  /\ UNCHANGED <<args, calls, probe, tmpExists, mainLocals, callLocals, cacheVars, files>>

EnsureRepoLocal ==
  /\ pc = "main"
  /\ ~args.dryRun
  /\ ~args.isUrl
  /\ pc' = "getRev"
  /\ UNCHANGED <<args, calls, probe, exitCode, err, tmpExists, mainLocals, callLocals, cacheVars, files>>

\* the local path does not exist or is not a directory: process.exit(2)
EnsureRepoBadPath ==
  /\ pc = "main"
  /\ ~args.dryRun
  /\ ~args.isUrl
  /\ pc' = "exited"
  /\ exitCode' = ExitBadPath
  /\ UNCHANGED <<args, calls, probe, err, tmpExists, mainLocals, callLocals, cacheVars, files>>

\* getRev never throws
GetRev ==
  /\ pc = "getRev"
  /\ pc' = "listCommits"
  /\ UNCHANGED <<args, calls, probe, exitCode, err, tmpExists, mainLocals, callLocals, cacheVars, files>>

ListCommitsFails ==
  /\ pc = "listCommits"
  /\ Throw("listCommits")

\* listCommits returns; the sampled list is empty: process.exit(4) ends the
\* process inside the try block, the finally clause does not run
NoCommits ==
  /\ pc = "listCommits"
  /\ LET list == SampleCommits([k \in 1..Len(Repos[args.repo]) |-> Repos[args.repo][k].id],
                               args.sampleEvery)
     IN  /\ NoWork(list)
         /\ commits' = list
  /\ pc' = "exited"
  /\ exitCode' = ExitNoCommits
  /\ UNCHANGED <<args, calls, probe, err, tmpExists, i, isoUtc, msgLenWindow, msgLenSum, rows,
                 callLocals, cacheVars, files>>

\* listCommits returns and main goes on: blobCache, rows and the window are
\* created and the loop starts with the first commit, if there is one
ListCommitsReturns ==
  /\ pc = "listCommits"
  /\ LET list == SampleCommits([k \in 1..Len(Repos[args.repo]) |-> Repos[args.repo][k].id],
                               args.sampleEvery)
     IN  /\ ~NoWork(list)
         /\ commits' = list
         /\ IF 0 < Len(list)
              THEN CallCompute
              ELSE pc' = "write" /\ UNCHANGED <<nonTestLoc, totalTests, docLoc>>
  /\ blobCache' = <<>>
  /\ rows' = <<>>
  /\ msgLenWindow' = <<>>
  /\ msgLenSum' = 0
  /\ i' = 0
  /\ UNCHANGED <<args, calls, probe, exitCode, err, tmpExists, isoUtc, entries, ei, isDoc, isCode,
                 catBlobCalls, nullReads, files>>

\* what git ls-tree can answer for the commit in progress
TreeReads == {GitFailure, GitOutput(CommitOf(args.repo, commits[i + 1]).tree)}

\* listTree returns or throws; an exception leaves computeMetricsForCommit
\* and reaches the try block of main
ListTreeReturns(raw) ==
  /\ pc = "listTree"
  /\ raw \in TreeReads
  /\ LET r == listTree(raw)
     IN  IF r.threw
           THEN Throw("listTree")
           ELSE /\ entries' = r.entries
                /\ ei' = 1
                /\ pc' = "entries"
                /\ UNCHANGED <<args, calls, probe, exitCode, err, tmpExists, mainLocals, isDoc,
                               isCode, nonTestLoc, totalTests, docLoc, cacheVars,
                               files>>

Totals == [nonTestLoc |-> nonTestLoc, totalTests |-> totalTests, docLoc |-> docLoc]

SetTotals(t) ==
  /\ nonTestLoc' = t.nonTestLoc
  /\ totalTests' = t.totalTests
  /\ docLoc' = t.docLoc

\* one iteration of the for-of loop up to its end or to the await of catBlob
EntryStep ==
  /\ pc = "entries"
  /\ ei <= Len(entries)
  /\ LET e   == entries[ei]
         ext == extOf(e.path)
     IN  /\ IF e.type = "blob"
              THEN isDoc' = (ext \in DOC_EXTS) /\ isCode' = (ext \in CODE_EXTS)
              ELSE UNCHANGED <<isDoc, isCode>>
         /\ IF FilteredOut(e, args.maxFileBytes)
              THEN /\ ei' = ei + 1
                   /\ UNCHANGED <<pc, nonTestLoc, totalTests, docLoc, catBlobCalls>>
              ELSE IF CacheHit(blobCache, e.sha)
                THEN /\ SetTotals(Accumulate(Totals, e.path, isDoc', isCode', blobCache[e.sha]))
                     /\ ei' = ei + 1
                     /\ UNCHANGED <<pc, catBlobCalls>>
                ELSE /\ pc' = "catBlob"
                     /\ catBlobCalls' = [catBlobCalls EXCEPT ![e.sha] = @ + 1]
                     /\ UNCHANGED <<ei, nonTestLoc, totalTests, docLoc>>
  /\ UNCHANGED <<args, calls, probe, exitCode, err, tmpExists, mainLocals, entries, blobCache,
                 nullReads, files>>

\* what git cat-file can answer for a content identity
BlobReads(sha) == {GitFailure, GitOutput(Blobs[sha])}

\* catBlob returns for entries[ei]: the metrics are computed, stored and
\* accumulated; an exception would leave computeMetricsForCommit
CatBlobReturns(raw) ==
  /\ pc = "catBlob"
  /\ raw \in BlobReads(entries[ei].sha)
  /\ LET e    == entries[ei]
         text == catBlob(raw, args.maxFileBytes)
     IN  IF text.threw
           THEN Throw("catBlob")
           ELSE LET metrics == ComputeBlobMetrics(text, extOf(e.path), isCode, isDoc)
                IN  /\ blobCache' = MapSet(blobCache, e.sha, metrics)
                    /\ nullReads' = IF text.null THEN nullReads \cup {e.sha} ELSE nullReads
                    /\ SetTotals(Accumulate(Totals, e.path, isDoc, isCode, metrics))
                    /\ ei' = ei + 1
                    /\ pc' = "entries"
                    /\ UNCHANGED <<args, calls, probe, exitCode, err, tmpExists, mainLocals, entries,
                                   isDoc, isCode, catBlobCalls, files>>

\* the loop is over: computeMetricsForCommit returns the totals and main
\* awaits commitDateIso
ComputeReturns ==
  /\ pc = "entries"
  /\ ei > Len(entries)
  /\ pc' = "commitDate"
  /\ UNCHANGED <<args, calls, probe, exitCode, err, tmpExists, mainLocals, callLocals, cacheVars, files>>

CommitDateFails ==
  /\ pc = "commitDate"
  /\ Throw("commitDateIso")

CommitDateReturns ==
  /\ pc = "commitDate"
  /\ isoUtc' = toISOString(CommitOf(args.repo, commits[i + 1]).date)
  /\ pc' = "commitMessage"
  /\ UNCHANGED <<args, calls, probe, exitCode, err, tmpExists, commits, i, msgLenWindow, msgLenSum,
                 rows, callLocals, cacheVars, files>>

CommitMessageFails ==
  /\ pc = "commitMessage"
  /\ Throw("commitMessage")

\* commitMessage returns: the window is updated, the row is appended and the
\* loop goes on with the next commit or ends
CommitMessageReturns ==
  /\ pc = "commitMessage"
  /\ LET c      == commits[i + 1]
         win    == Max(1, args.msgAvgWindow)
         msgLen == MsgLen(CommitOf(args.repo, c).msg)
         w      == RollingPush(msgLenWindow, msgLenSum, msgLen, win)
     IN  /\ msgLenWindow' = w.window
         /\ msgLenSum' = w.sum
         /\ rows' = Append(rows,
              [isoWhen |-> isoUtc, nonTestLoc |-> nonTestLoc,
               totalTests |-> totalTests, docLoc |-> docLoc,
               shortSha |-> ShortSha(c), commitMsgLen |-> msgLen,
               commitMsgLenAvg |-> [num |-> w.sum, den |-> Len(w.window)]])
  /\ i' = i + 1
  /\ IF i + 1 < Len(commits)
       THEN CallCompute
       ELSE pc' = "write" /\ UNCHANGED <<nonTestLoc, totalTests, docLoc>>
  /\ UNCHANGED <<args, calls, probe, exitCode, err, tmpExists, commits, isoUtc, entries, ei, isDoc,
                 isCode, cacheVars, files>>

\* with --assets the local plotly.min.js is copied next to the outputs, when
\* the package is installed and the copy does not fail
CopyAssets ==
  IF args.assets
    THEN assetFile' \in BOOLEAN
    ELSE assetFile' = assetFile

\* writeCsv throws: nothing is written
WriteCsvFails ==
  /\ pc = "write"
  /\ Throw("writeCsv")

\* writeCsv succeeds and writePlotlyHtml throws
WriteHtmlFails ==
  /\ pc = "write"
  /\ csvFile' = File(rows)
  /\ pc' = "exited"
  /\ exitCode' = ExitError
  /\ err' = "writePlotlyHtml"
  /\ CopyAssets
  /\ Cleanup
  /\ UNCHANGED <<args, calls, probe, mainLocals, callLocals, cacheVars, htmlFile>>

\* both files are written, finally runs cleanup and main returns
WriteOutputs ==
  /\ pc = "write"
  /\ csvFile' = File(rows)
  /\ htmlFile' = File(rows)
  /\ pc' = "exited"
  /\ CopyAssets
  /\ Cleanup
  /\ UNCHANGED <<args, calls, probe, exitCode, err, mainLocals, callLocals, cacheVars>>

Next ==
  \/ DryRun
  \/ EnsureRepoUrl
  \/ CloneReturns
  \/ CloneFails
  \/ EnsureRepoLocal
  \/ EnsureRepoBadPath
  \/ GetRev
  \/ ListCommitsFails
  \/ NoCommits
  \/ ListCommitsReturns
  \/ pc = "listTree" /\ \E raw \in TreeReads : ListTreeReturns(raw)
  \/ EntryStep
  \/ pc = "catBlob" /\ \E raw \in BlobReads(entries[ei].sha) : CatBlobReturns(raw)
  \/ ComputeReturns
  \/ CommitDateFails
  \/ CommitDateReturns
  \/ CommitMessageFails
  \/ CommitMessageReturns
  \/ WriteCsvFails
  \/ WriteHtmlFails
  \/ WriteOutputs

Spec == Init /\ [][Next]_vars

\* main, from the CSV to the HTML: the source handed to writePlotlyHtml is
\* the copy made for --assets or undefined; a is the parsed command line
plotlySrcToUse(a, disk) ==
  IF ~a.assets THEN Undefined
  ELSE IF ~disk.bundle \/ ~disk.mkdirOk \/ ~disk.copyOk THEN Undefined
  ELSE Defined(relative(a.htmlDir, Append(a.assetsDir, "plotly.min.js")))

\* the script source of the HTML that main writes
MainScriptSrc(a, disk) ==
  resolvedPlotlySrc(plotlySrcToUse(a, disk), disk.bundle)

\* ------------------------------------------------ the functions on their own
\* bounds of the inputs tried
MaxPrefixLen == 3
MaxDirs == 2
MaxPermuted == 5
MaxTextLen == 4

\* the state of main outside the function under study
mainVars == <<args, pc, exitCode, err, tmpExists, mainLocals, callLocals, cacheVars, files>>

\* the command line with every option at its default
DefaultArgs ==
  parseArgs([repo |-> "E", isUrl |-> FALSE, dryRun |-> FALSE, keepTemp |-> FALSE,
             assets |-> FALSE, sampleEvery |-> NaN, msgAvgWindow |-> NaN,
             maxFileBytes |-> 1000000])

\* the legacy single file (repo_test_growth.ts): its comment prefix table
\* lists mjs and cjs; its other tables, its helpers and its catBlob read as
\* those of the modules
Legacy_COMMENT_PREFIXES_BY_EXT(ext) ==
  IF ext \in HashExts THEN { <<"#">> }
  ELSE IF ext \in SlashExts \cup { <<"m","j","s">>, <<"c","j","s">> } THEN { <<"/","/">> }
  ELSE IF ext = <<"p","h","p">> THEN { <<"/","/">>, <<"#">> }
  ELSE IF ext = <<"s","q","l">> THEN { <<"-","-">> }
  ELSE {}

Legacy_countCodeLoc(text, ext) ==
  LET prefixes == Legacy_COMMENT_PREFIXES_BY_EXT(ext)
      counted(line) ==
        LET s == trim(line)
        IN  s # <<>> /\ ~ \E pref \in prefixes : startsWith(s, pref)
  IN  Cardinality({n \in 1..Len(splitLines(text)) : counted(splitLines(text)[n])})

Legacy_ComputeBlobMetrics(text, ext, entryIsCode, entryIsDoc) ==
  IF text.null THEN ZeroMetrics
  ELSE [codeLoc   |-> IF entryIsCode THEN Legacy_countCodeLoc(text.text, ext) ELSE 0,
        testCases |-> IF entryIsCode THEN countTestCases(text.text, ext) ELSE 0,
        docLoc    |-> IF entryIsDoc THEN countDocLoc(text.text) ELSE 0]

RECURSIVE Legacy_ForOf(_, _, _, _, _)
Legacy_ForOf(es, k, cache, tot, maxFileBytes) ==
  IF k > Len(es) THEN [tot |-> tot, cache |-> cache]
  ELSE LET e        == es[k]
           ext      == extOf(e.path)
           entryDoc == ext \in DOC_EXTS
           entryCode == ext \in CODE_EXTS
       IN  IF FilteredOut(e, maxFileBytes)
             THEN Legacy_ForOf(es, k + 1, cache, tot, maxFileBytes)
             ELSE IF CacheHit(cache, e.sha)
               THEN Legacy_ForOf(es, k + 1, cache,
                                 Accumulate(tot, e.path, entryDoc, entryCode, cache[e.sha]),
                                 maxFileBytes)
               ELSE LET text    == catBlob(GitOutput(Blobs[e.sha]), maxFileBytes)
                        metrics == Legacy_ComputeBlobMetrics(text, ext, entryCode, entryDoc)
                    IN  Legacy_ForOf(es, k + 1, MapSet(cache, e.sha, metrics),
                                     Accumulate(tot, e.path, entryDoc, entryCode, metrics),
                                     maxFileBytes)

Legacy_computeMetricsForCommit(es, cache, maxFileBytes) ==
  Legacy_ForOf(es, 1, cache, [nonTestLoc |-> 0, totalTests |-> 0, docLoc |-> 0],
               maxFileBytes)

RECURSIVE ForOf(_, _, _, _, _)
\* the for-of loop of computeMetricsForCommit from entry k on, every blob
\* read answered by git: the totals and the cache at its end
ForOf(es, k, cache, tot, maxFileBytes) ==
  IF k > Len(es) THEN [tot |-> tot, cache |-> cache]
  ELSE LET e        == es[k]
           ext      == extOf(e.path)
           entryDoc == ext \in DOC_EXTS
           entryCode == ext \in CODE_EXTS
       IN  IF FilteredOut(e, maxFileBytes)
             THEN ForOf(es, k + 1, cache, tot, maxFileBytes)
             ELSE IF CacheHit(cache, e.sha)
               THEN ForOf(es, k + 1, cache,
                          Accumulate(tot, e.path, entryDoc, entryCode, cache[e.sha]),
                          maxFileBytes)
               ELSE LET text    == catBlob(GitOutput(Blobs[e.sha]), maxFileBytes)
                        metrics == ComputeBlobMetrics(text, ext, entryCode, entryDoc)
                    IN  ForOf(es, k + 1, MapSet(cache, e.sha, metrics),
                              Accumulate(tot, e.path, entryDoc, entryCode, metrics),
                              maxFileBytes)

\* computeMetricsForCommit on a tree listing, as one function
computeMetricsForCommit(es, cache, maxFileBytes) ==
  ForOf(es, 1, cache, [nonTestLoc |-> 0, totalTests |-> 0, docLoc |-> 0], maxFileBytes)

RECURSIVE SeqsUpTo(_, _)
\* the sequences over a set of at most n elements
SeqsUpTo(S, n) ==
  IF n = 0 THEN {<<>>}
  ELSE SeqsUpTo(S, n - 1) \cup
       {Append(s, c) : s \in {t \in SeqsUpTo(S, n - 1) : Len(t) = n - 1}, c \in S}

\* output prefixes: short strings over a letter, the safe punctuation, both
\* separators and a blank, and the two names of the unit test
PrefixInputs ==
  SeqsUpTo({"a", ".", "-", "/", "\\", " "}, MaxPrefixLen)
    \cup { <<".",".","/","e","t","c","/","p","a","s","s","w","d">>,
           <<"g","o","o","d","-","n","a","m","e">> }

\* directory names: the ignored names as written, in upper and in lower
\* case, and one name outside the set
SegChoices ==
  SKIP_DIR_FRAGMENTS
    \cup {toLowerCase(n) : n \in SKIP_DIR_FRAGMENTS}
    \cup {[k \in 1..Len(n) |->
             IF n[k] \in Range(LowerAlpha)
               THEN UpperAlpha[CHOOSE j \in 1..26 : LowerAlpha[j] = n[k]]
               ELSE n[k]] : n \in SKIP_DIR_FRAGMENTS}
    \cup { <<"s","r","c">> }

\* paths as git ls-tree prints them: directories and a code file
PathInputs ==
  {join(dirs \o << <<"a",".","p","y">> >>, <<"/">>) :
     dirs \in {d \in SeqsUpTo(SegChoices, MaxDirs) : d # <<>>}}

\* the orders tried for a tree of n entries: every permutation of a short
\* tree, the exchanges of two entries and the reversal of a longer one
Orders(n) ==
  IF n <= MaxPermuted
    THEN {f \in [1..n -> 1..n] : \A a, b \in 1..n : f[a] = f[b] => a = b}
    ELSE {[k \in 1..n |-> IF k = a THEN b ELSE IF k = b THEN a ELSE k] :
            a, b \in 1..n}
         \cup {[k \in 1..n |-> n + 1 - k]}

\* the assets directories and the directories of the HTML file tried, as
\* segments below the current directory
AssetsDirs == { <<"assets">>, <<"out", "assets">>, <<"tmp", "assets">> }
HtmlDirs == { <<>>, <<"out">>, <<"tmp", "outdir">> }
Disks == [bundle : BOOLEAN, mkdirOk : BOOLEAN, copyOk : BOOLEAN]

\* the texts of the unit tests and texts with a trailing comment, a block
\* comment and an SQL comment
PyText == <<"#"," ","c","o","m","m","e","n","t","LF","LF","d","e","f"," ","f","o","o","(",")",":","LF"," "," ","#"," ","i","n","n","e","r"," ","c","o","m","m","e","n","t","LF"," "," ","r","e","t","u","r","n"," ","1","LF">>
JsText == <<"/","/"," ","h","i","LF","f","u","n","c","t","i","o","n"," ","a","(",")"," ","{","LF"," "," ","/","/"," ","i","n","n","e","r","LF"," "," ","r","e","t","u","r","n"," ","2",";","LF","}","LF">>
MdText == <<"#"," ","T","i","t","l","e","LF","LF","S","o","m","e"," ","t","e","x","t","LF","LF","M","o","r","e","LF">>
TrailingText == <<"x"," ","="," ","1",";"," ","/","/"," ","w","h","y","CR","LF","TAB","CR","LF","y"," ","="," ","2",";">>
BlockText == <<"/","*"," ","a","LF"," ","*"," ","b","LF"," ","*","/","LF">>
SqlText == <<"-","-"," ","n","o","t","e","LF","S","E","L","E","C","T"," ","1",";","LF"," "," ","LF">>

\* texts and extensions for the line counters: every short text over a
\* letter, the comment characters, a blank and the line ends, with an
\* extension of each kind of prefix table entry and one without entry
LocInputs ==
  (SeqsUpTo({"x", "/", "#", " ", "LF", "CR"}, MaxTextLen)
     \X { <<"p","y">>, <<"j","s">>, <<"p","h","p">>, <<"m","j","s">> })
  \cup { <<PyText, <<"p","y">> >>, <<JsText, <<"j","s">> >>, <<MdText, <<"m","d">> >>,
         <<TrailingText, <<"j","s">> >>, <<BlockText, <<"j","s">> >>,
         <<SqlText, <<"s","q","l">> >>, <<SqlText, <<"m","j","s">> >> }

\* directory names and file names for isTestPath: with and without a hint
\* word, a prefix or a suffix, in both letter cases
TestDirChoices ==
  { <<"s","r","c">>,
    <<"l","i","b">>,
    <<"T","e","s","t","s">>,
    <<"c","o","n","t","e","s","t">>,
    <<"m","y","-","e","2","e">>,
    <<"_","_","t","e","s","t","s","_","_">>,
    <<"S","p","e","c","s">> }
TestFileChoices ==
  { <<"a",".","p","y">>,
    <<"t","e","s","t","_","a",".","p","y">>,
    <<"s","p","e","c","_","a",".","r","b">>,
    <<"a","_","t","e","s","t",".","g","o">>,
    <<"a",".","t","e","s","t",".","j","s">>,
    <<"a",".","s","p","e","c",".","t","s">>,
    <<"F","o","o","S","p","e","c",".","s","c","a","l","a">>,
    <<"F","o","o","T","e","s","t","s",".","c","s">>,
    <<"t","e","s","t",".","p","y">>,
    <<"t","e","s","t","s",".","j","s">>,
    <<"l","a","t","e","s","t",".","p","y">>,
    <<".","t","e","s","t">>,
    <<"f","o","o",".","t","e","s","t">>,
    <<"t","e","s","t","a",".","p","y">>,
    <<"f","o","o","t","e","s","t","s",".","p","y">>,
    <<"t","e","s","t">>,
    <<"e","2","e",".","j","s">>,
    <<"a",".","T","e","s","t",".","j","s">> }
TestPathInputs ==
  {join(Append(dirs, f), <<"/">>) :
     dirs \in SeqsUpTo(TestDirChoices, MaxDirs), f \in TestFileChoices}

\* the tree listings tried: those of the repositories and one with an ES
\* module
TreeInputs ==
  {Repos[r][c].tree : r \in {"A"}, c \in 1..Len(Repos["A"])}
    \cup {Repos[r][c].tree : r \in {"B"}, c \in 1..Len(Repos["B"])}
    \cup { << Blob(<<"a","p","p",".","m","j","s">>, "b_mjs"), Blob(<<"l","i","b",".","j","s">>, "b_njs") >> }

\* command lines with and without --plotly-src and --assets
PlotlySrcChoices == { Undefined, Defined(<<>>), Defined(<<"vendor", "plotly.js">>) }
HtmlArgs ==
  [plotlySrc : PlotlySrcChoices, assets : BOOLEAN, assetsDir : AssetsDirs,
   htmlDir : HtmlDirs]

InitFunctions ==
  /\ args = DefaultArgs
  /\ InitLocals
  /\ calls = NoCalls
  /\ \/ probe \in {[op |-> "sanitizeOutputPrefix", applied |-> FALSE, p |-> x] :
                     x \in PrefixInputs}
     \/ probe \in {[op |-> "pathShouldSkip", applied |-> FALSE, p |-> x] :
                     x \in PathInputs}
     \/ probe \in {[op |-> "isTestPath", applied |-> FALSE, p |-> x] :
                     x \in TestPathInputs}
     \/ probe \in {[op |-> "countLoc", applied |-> FALSE, text |-> x[1], ext |-> x[2]] :
                     x \in LocInputs}
     \/ probe \in {[op |-> "copyPlotlyToAssets", applied |-> FALSE, assetsDir |-> a,
                      htmlDir |-> h, disk |-> d] :
                       a \in AssetsDirs, h \in HtmlDirs, d \in Disks}
     \/ probe \in {[op |-> "writePlotlyHtml", applied |-> FALSE, args |-> a, disk |-> d] :
                       a \in HtmlArgs, d \in Disks}
     \/ \E t \in TreeInputs :
          probe \in {[op |-> "computeMetricsForCommit", applied |-> FALSE,
                      tree |-> t, order |-> o, maxFileBytes |-> m] :
                       o \in Orders(Len(t)), m \in MaxFileBytesChoices}

ApplySanitizeOutputPrefix ==
  /\ probe.op = "sanitizeOutputPrefix"
  /\ ~probe.applied
  /\ probe' = [op |-> probe.op, applied |-> TRUE, p |-> probe.p,
               clean |-> sanitizeOutputPrefix(probe.p)]
  /\ UNCHANGED <<mainVars, calls>>

ApplyPathShouldSkip ==
  /\ probe.op = "pathShouldSkip"
  /\ ~probe.applied
  /\ probe' = [op |-> probe.op, applied |-> TRUE, p |-> probe.p,
               skip |-> pathShouldSkip(probe.p)]
  /\ UNCHANGED <<mainVars, calls>>

ApplyComputeMetricsForCommit ==
  /\ probe.op = "computeMetricsForCommit"
  /\ ~probe.applied
  /\ LET es == [k \in 1..Len(probe.tree) |-> probe.tree[probe.order[k]]]
         r  == computeMetricsForCommit(es, <<>>, probe.maxFileBytes)
         l  == Legacy_computeMetricsForCommit(es, <<>>, probe.maxFileBytes)
     IN  probe' = [op |-> probe.op, applied |-> TRUE, tree |-> probe.tree,
                   order |-> probe.order, maxFileBytes |-> probe.maxFileBytes,
                   totals |-> r.tot, cache |-> r.cache,
                   legacyTotals |-> l.tot, legacyCache |-> l.cache]
  /\ UNCHANGED <<mainVars, calls>>

ApplyCopyPlotlyToAssets ==
  /\ probe.op = "copyPlotlyToAssets"
  /\ ~probe.applied
  /\ probe' = [op |-> probe.op, applied |-> TRUE, assetsDir |-> probe.assetsDir,
               htmlDir |-> probe.htmlDir, disk |-> probe.disk,
               result |-> copyPlotlyToAssets(probe.assetsDir, probe.htmlDir, probe.disk)]
  /\ UNCHANGED <<mainVars, calls>>

\* main writing the HTML
ApplyWritePlotlyHtml ==
  /\ probe.op = "writePlotlyHtml"
  /\ ~probe.applied
  /\ probe' = [op |-> probe.op, applied |-> TRUE, args |-> probe.args,
               disk |-> probe.disk,
               script |-> MainScriptSrc(probe.args, probe.disk)]
  /\ UNCHANGED <<mainVars, calls>>

\* countCodeLoc and countDocLoc on the same text
ApplyCountLoc ==
  /\ probe.op = "countLoc"
  /\ ~probe.applied
  /\ probe' = [op |-> probe.op, applied |-> TRUE, text |-> probe.text, ext |-> probe.ext,
               codeLoc |-> countCodeLoc(probe.text, probe.ext),
               docLoc |-> countDocLoc(probe.text)]
  /\ UNCHANGED <<mainVars, calls>>

ApplyIsTestPath ==
  /\ probe.op = "isTestPath"
  /\ ~probe.applied
  /\ probe' = [op |-> probe.op, applied |-> TRUE, p |-> probe.p,
               isTest |-> isTestPath(probe.p)]
  /\ UNCHANGED <<mainVars, calls>>

NextFunctions ==
  \/ ApplySanitizeOutputPrefix
  \/ ApplyPathShouldSkip
  \/ ApplyComputeMetricsForCommit
  \/ ApplyCopyPlotlyToAssets
  \/ ApplyCountLoc
  \/ ApplyIsTestPath
  \/ ApplyWritePlotlyHtml

SpecFunctions == InitFunctions /\ [][NextFunctions]_vars

\* ------------------------------- computeMetricsForCommit calls in flight
\* the calls a caller starts without awaiting one before the next, all on
\* the same git handle and the same blobCache
Callers == {"call1", "call2"}

IdleCall ==
  [pc |-> "idle", commit |-> 0, entries |-> <<>>, ei |-> 1, isDoc |-> FALSE,
   isCode |-> FALSE, tot |-> [nonTestLoc |-> 0, totalTests |-> 0, docLoc |-> 0]]

\* the state outside the calls and their cache
outsideCalls == <<args, pc, exitCode, err, tmpExists, mainLocals, callLocals, files, probe>>

InitConcurrent ==
  /\ args \in {[DefaultArgs EXCEPT !.repo = r, !.maxFileBytes = m] :
                 r \in {"A", "B"}, m \in MaxFileBytesChoices}
  /\ InitLocals
  /\ probe = NoProbe
  /\ calls = [c \in Callers |-> IdleCall]

\* computeMetricsForCommit(git, commit, maxFileBytes, blobCache) is called
\* and suspends in listTree
ConcurrentCall(c, k) ==
  /\ calls[c].pc = "idle"
  /\ k \in 1..Len(Repos[args.repo])
  /\ calls' = [calls EXCEPT ![c] = [IdleCall EXCEPT !.pc = "listTree", !.commit = k]]
  /\ UNCHANGED <<outsideCalls, cacheVars>>

ConcurrentListTreeReturns(c, raw) ==
  /\ calls[c].pc = "listTree"
  /\ raw \in {GitFailure, GitOutput(Repos[args.repo][calls[c].commit].tree)}
  /\ LET r == listTree(raw)
     IN  IF r.threw
           THEN calls' = [calls EXCEPT ![c].pc = "thrown"]
           ELSE calls' = [calls EXCEPT ![c].pc = "entries", ![c].entries = r.entries,
                                       ![c].ei = 1]
  /\ UNCHANGED <<outsideCalls, cacheVars>>

\* one iteration of the for-of loop of call c up to its end or to the await
\* of catBlob
ConcurrentEntryStep(c) ==
  /\ calls[c].pc = "entries"
  /\ calls[c].ei <= Len(calls[c].entries)
  /\ LET me  == calls[c]
         e   == me.entries[me.ei]
         ext == extOf(e.path)
         d   == IF e.type = "blob" THEN ext \in DOC_EXTS ELSE me.isDoc
         cd  == IF e.type = "blob" THEN ext \in CODE_EXTS ELSE me.isCode
     IN  IF FilteredOut(e, args.maxFileBytes)
           THEN /\ calls' = [calls EXCEPT ![c].ei = @ + 1, ![c].isDoc = d, ![c].isCode = cd]
                /\ UNCHANGED catBlobCalls
           ELSE IF CacheHit(blobCache, e.sha)
             THEN /\ calls' = [calls EXCEPT ![c].ei = @ + 1, ![c].isDoc = d, ![c].isCode = cd,
                                            ![c].tot = Accumulate(@, e.path, d, cd, blobCache[e.sha])]
                  /\ UNCHANGED catBlobCalls
             ELSE /\ calls' = [calls EXCEPT ![c].pc = "catBlob", ![c].isDoc = d, ![c].isCode = cd]
                  /\ catBlobCalls' = [catBlobCalls EXCEPT ![e.sha] = @ + 1]
  /\ UNCHANGED <<outsideCalls, blobCache, nullReads>>

\* catBlob returns to call c: the metrics are computed, stored with
\* blobCache.set and accumulated
ConcurrentCatBlobReturns(c, raw) ==
  /\ calls[c].pc = "catBlob"
  /\ raw \in BlobReads(calls[c].entries[calls[c].ei].sha)
  /\ LET me   == calls[c]
         e    == me.entries[me.ei]
         text == catBlob(raw, args.maxFileBytes)
     IN  IF text.threw
           THEN /\ calls' = [calls EXCEPT ![c].pc = "thrown"]
                /\ UNCHANGED <<blobCache, nullReads>>
           ELSE LET metrics == ComputeBlobMetrics(text, extOf(e.path), me.isCode, me.isDoc)
                IN  /\ blobCache' = MapSet(blobCache, e.sha, metrics)
                    /\ nullReads' = IF text.null THEN nullReads \cup {e.sha} ELSE nullReads
                    /\ calls' = [calls EXCEPT ![c].pc = "entries", ![c].ei = @ + 1,
                                   ![c].tot = Accumulate(@, e.path, me.isDoc, me.isCode, metrics)]
  /\ UNCHANGED <<outsideCalls, catBlobCalls>>

\* the loop of call c is over: the totals are returned
ConcurrentReturns(c) ==
  /\ calls[c].pc = "entries"
  /\ calls[c].ei > Len(calls[c].entries)
  /\ calls' = [calls EXCEPT ![c].pc = "returned"]
  /\ UNCHANGED <<outsideCalls, cacheVars>>

NextConcurrent ==
  \E c \in Callers :
    \/ \E k \in 1..Len(Repos[args.repo]) : ConcurrentCall(c, k)
    \/ \E raw \in {GitFailure} \cup {GitOutput(Repos[args.repo][k].tree) :
                                       k \in 1..Len(Repos[args.repo])} :
         ConcurrentListTreeReturns(c, raw)
    \/ ConcurrentEntryStep(c)
    \/ \E raw \in {GitFailure} \cup {GitOutput(Blobs[s]) : s \in Shas} :
         ConcurrentCatBlobReturns(c, raw)
    \/ ConcurrentReturns(c)

SpecConcurrent == InitConcurrent /\ [][NextConcurrent]_vars

\* ------------------------------------------------------------ properties

\* the bucket of an entry that survives the filter, and its counter
C1_Bucket(e) ==
  IF extOf(e.path) \in DOC_EXTS THEN "docLoc"
  ELSE IF isTestPath(e.path) THEN "totalTests"
  ELSE "nonTestLoc"

C1_Counter(m, bucket) ==
  CASE bucket = "docLoc" -> m.docLoc
    [] bucket = "totalTests" -> m.testCases
    [] bucket = "nonTestLoc" -> m.codeLoc

RECURSIVE C1_BucketSum(_, _, _)
C1_BucketSum(es, n, bucket) ==
  IF n = 0 THEN 0
  ELSE (IF ~FilteredOut(es[n], args.maxFileBytes) /\ C1_Bucket(es[n]) = bucket
          THEN C1_Counter(blobCache[es[n].sha], bucket)
          ELSE 0)
       + C1_BucketSum(es, n - 1, bucket)

\* C1: while computeMetricsForCommit runs and when it has returned, each of
\* the three totals is the sum, over the entries processed so far that
\* survive the filter and fall into the bucket of that total (docLoc for a
\* documentation extension, else totalTests for a test path, else
\* nonTestLoc), of the bucket's counter of the entry's BlobMetrics; no entry
\* counts in two totals and a filtered entry counts in none.
C1_ExactlyOneBucket ==
  pc \in {"entries", "catBlob", "commitDate", "commitMessage"} =>
    \A b \in {"docLoc", "totalTests", "nonTestLoc"} :
      Totals[b] = C1_BucketSum(entries, ei - 1, b)

C1_Witness ==
  pc = "commitDate" /\ nonTestLoc > 0 /\ totalTests > 0 /\ docLoc > 0

\* C2: over the whole run catBlob is called at most once per content
\* identity and only when the identity is not cached; a cached value is never
\* changed; an entry whose identity is cached causes no call and adds one
\* counter of the stored metrics.
C2_AtMostOnce ==
  [][ /\ \A s \in Shas : catBlobCalls'[s] <= 1
      /\ \A s \in Shas : catBlobCalls'[s] > catBlobCalls[s] => s \notin DOMAIN blobCache
      /\ \A s \in DOMAIN blobCache :
           s \in DOMAIN blobCache' /\ blobCache'[s] = blobCache[s]
      /\ (/\ pc = "entries"
          /\ ei <= Len(entries)
          /\ ~FilteredOut(entries[ei], args.maxFileBytes)
          /\ entries[ei].sha \in DOMAIN blobCache)
         => LET m == blobCache[entries[ei].sha]
            IN  /\ catBlobCalls' = catBlobCalls
                /\ pc' = "entries"
                /\ <<nonTestLoc' - nonTestLoc, totalTests' - totalTests, docLoc' - docLoc>>
                     \in {<<m.codeLoc, 0, 0>>, <<0, m.testCases, 0>>, <<0, 0, m.docLoc>>}
    ]_vars

\* the second commit has met foo.py again, whose content was read once
C2_Witness ==
  /\ i >= 1
  /\ pc = "entries"
  /\ ei > 1
  /\ entries[ei - 1].sha = "b_foo"
  /\ ~FilteredOut(entries[ei - 1], args.maxFileBytes)
  /\ catBlobCalls["b_foo"] = 1
  /\ nonTestLoc = 2

RECURSIVE C3_Sum(_, _, _)
\* sum of commitMsgLen over the rows lo..hi (1-based)
C3_Sum(rs, lo, hi) ==
  IF lo > hi THEN 0 ELSE rs[lo].commitMsgLen + C3_Sum(rs, lo + 1, hi)

C3_IsValue(avg, v) == avg.den > 0 /\ avg.num = v * avg.den

\* C3: the commitMsgLenAvg of row i (0-based) is the mean of commitMsgLen
\* over the rows max(0, i-N+1)..i, N = max(1, msgAvgWindow); lengths
\* [10, 20, 30] with N = 2 give [10, 15, 25] and [4, 4, 4] give 4 at the
\* third row.
C3_RollingAverage ==
  LET N == IF args.msgAvgWindow >= 1 THEN args.msgAvgWindow ELSE 1
  IN  /\ \A k \in 1..Len(rows) :
           LET idx == k - 1
               lo  == IF idx - N + 1 > 0 THEN idx - N + 1 ELSE 0
               cnt == idx - lo + 1
               avg == rows[k].commitMsgLenAvg
           IN  /\ avg.den > 0
               /\ avg.num * cnt = C3_Sum(rows, lo + 1, idx + 1) * avg.den
      /\ (args.repo = "A" /\ args.sampleEvery = 1 /\ N = 2 /\ Len(rows) = 3) =>
           /\ [k \in 1..3 |-> rows[k].commitMsgLen] = <<10, 20, 30>>
           /\ C3_IsValue(rows[1].commitMsgLenAvg, 10)
           /\ C3_IsValue(rows[2].commitMsgLenAvg, 15)
           /\ C3_IsValue(rows[3].commitMsgLenAvg, 25)
      /\ (args.repo = "B" /\ args.sampleEvery = 1 /\ N = 2 /\ Len(rows) = 3) =>
           /\ [k \in 1..3 |-> rows[k].commitMsgLen] = <<4, 4, 4>>
           /\ C3_IsValue(rows[3].commitMsgLenAvg, 4)

C3_Witness ==
  args.repo = "A" /\ args.sampleEvery = 1 /\ args.msgAvgWindow = 2 /\ Len(rows) = 3

\* C4: rows holds one row per fully processed commit, in list order, row k
\* carrying the first 12 characters of commit k; a row is appended only by
\* the step in which the message lookup returns, after every tree entry of
\* that commit was aggregated and its date was looked up, and carries these
\* results; rows already appended stay as they are.
C4_RowsArePrefix ==
  [][ /\ Len(rows') = i'
      /\ Len(rows') <= Len(commits')
      /\ \A k \in 1..Len(rows') : rows'[k].shortSha = SubSeq(commits'[k], 1, 12)
      /\ Len(rows) <= Len(rows')
      /\ SubSeq(rows', 1, Len(rows)) = rows
      /\ rows' # rows =>
           LET c == CommitOf(args.repo, commits[i + 1])
               r == rows'[Len(rows')]
           IN  /\ Len(rows') = Len(rows) + 1
               /\ pc = "commitMessage"
               /\ entries = c.tree
               /\ ei = Len(entries) + 1
               /\ r.nonTestLoc = nonTestLoc
               /\ r.totalTests = totalTests
               /\ r.docLoc = docLoc
               /\ r.isoWhen = c.date.local - c.date.off
               /\ r.commitMsgLen = Len(trimEnd(c.msg))
    ]_vars

\* two rows are there while the third commit is being aggregated
C4_Witness ==
  Len(rows) = 2 /\ pc = "catBlob" /\ Len(commits) = 3

C5_UnderNodeModules(p) ==
  LET segs == splitChar(p, "/")
  IN  \E k \in 1..(Len(segs) - 1) :
        segs[k] = <<"n","o","d","e","_","m","o","d","u","l","e","s">>

C5_Readable(raw, maxBytes) ==
  /\ raw.ok
  /\ raw.out # <<>>
  /\ Len(raw.out) <= maxBytes
  /\ \A k \in 1..Len(raw.out) : raw.out[k] # "NUL"

\* C5: a code file under node_modules is passed over without a blob read, a
\* cache entry or a contribution; a documentation file under node_modules
\* (within the byte ceiling) goes to the cache lookup, is fetched when its
\* content is not cached, and the non-blank lines of the text read are added
\* to docLoc.
C5_SkipAsymmetry ==
  [][ /\ (/\ pc = "entries"
          /\ ei <= Len(entries)
          /\ entries[ei].type = "blob"
          /\ C5_UnderNodeModules(entries[ei].path))
         => LET e   == entries[ei]
                ext == extOf(e.path)
            IN  /\ ext \in CODE_EXTS =>
                     /\ pc' = "entries"
                     /\ ei' = ei + 1
                     /\ UNCHANGED <<blobCache, catBlobCalls, nonTestLoc, totalTests, docLoc>>
                /\ (ext \in DOC_EXTS /\ (e.size = NullSize \/ e.size <= args.maxFileBytes)) =>
                     IF e.sha \in DOMAIN blobCache
                       THEN /\ docLoc' = docLoc + blobCache[e.sha].docLoc
                            /\ ei' = ei + 1
                       ELSE /\ pc' = "catBlob"
                            /\ catBlobCalls'[e.sha] = catBlobCalls[e.sha] + 1
      /\ (/\ pc = "catBlob"
          /\ C5_UnderNodeModules(entries[ei].path)
          /\ extOf(entries[ei].path) \in DOC_EXTS)
         => \A raw \in BlobReads(entries[ei].sha) :
              (CatBlobReturns(raw) /\ C5_Readable(raw, args.maxFileBytes)) =>
                /\ docLoc' = docLoc + countDocLoc(raw.out)
                /\ blobCache'[entries[ei].sha].docLoc = countDocLoc(raw.out)
    ]_vars

\* in the second commit of repository A the documentation file under
\* node_modules was counted and the code file next to it was not
C5_Witness ==
  /\ args.repo = "A"
  /\ pc = "commitDate"
  /\ i = 1
  /\ "b_nmd" \in DOMAIN blobCache
  /\ blobCache["b_nmd"].docLoc = 2
  /\ docLoc = 2
  /\ "b_njs" \notin DOMAIN blobCache
  /\ catBlobCalls["b_njs"] = 0

\* C6: no extension is both a code and a documentation extension and no
\* tree entry is classified as both.
C6_Partition ==
  /\ ~(isCode /\ isDoc)
  /\ CODE_EXTS \cap DOC_EXTS = {}
  /\ \A r \in DOMAIN Repos : \A k \in 1..Len(Repos[r]) :
       \A n \in 1..Len(Repos[r][k].tree) :
         LET ext == extOf(Repos[r][k].tree[n].path)
         IN  ~(ext \in CODE_EXTS /\ ext \in DOC_EXTS)

\* an Objective-C file (extension m) has been classified
C6_Witness ==
  /\ pc = "catBlob"
  /\ entries[ei].sha = "b_m"
  /\ isCode

\* C7: a blob read that fails or returns nothing does not end the call: the
\* entry adds nothing to any total, the loop goes on with the next entry of
\* the same commit, and no run ever ends because of a blob read.
C7_BlobFailureAbsorbed ==
  [][ /\ err' # "catBlob"
      /\ \A raw \in {GitFailure, GitOutput(<<>>)} :
           CatBlobReturns(raw) =>
             /\ pc' = "entries"
             /\ ei' = ei + 1
             /\ i' = i
             /\ nonTestLoc' = nonTestLoc
             /\ totalTests' = totalTests
             /\ docLoc' = docLoc
    ]_vars

\* the read of foo.py failed in the first commit, the test file after it was
\* counted and all three commits of repository A got their row
C7_Witness ==
  /\ args.repo = "A"
  /\ args.maxFileBytes > 100
  /\ pc = "exited"
  /\ exitCode = 0
  /\ Len(rows) = 3
  /\ htmlFile.written
  /\ blobCache["b_foo"] = [codeLoc |-> 0, testCases |-> 0, docLoc |-> 0]
  /\ rows[1].nonTestLoc = 0
  /\ rows[1].totalTests = 1

\* C8: when git ls-tree fails the run ends with exit code 1 in that step: no
\* row is added for the commit, blobCache is as it was, neither file is
\* written, and nothing happens after the exit.
C8_TreeFailureIsHard ==
  [][ /\ pc # "exited"
      /\ (pc = "listTree" /\ ListTreeReturns(GitFailure)) =>
           /\ pc' = "exited"
           /\ exitCode' = 1
           /\ rows' = rows
           /\ Len(rows') = i
           /\ blobCache' = blobCache
           /\ catBlobCalls' = catBlobCalls
           /\ ~csvFile'.written
           /\ ~htmlFile'.written
    ]_vars

\* the listing of the third commit failed after two commits were processed
C8_Witness ==
  /\ err = "listTree"
  /\ pc = "exited"
  /\ Len(rows) = 2
  /\ DOMAIN blobCache # {}
  /\ ~csvFile.written

C9_ListToProcess ==
  LET all == [k \in 1..Len(Repos[args.repo]) |-> Repos[args.repo][k].id]
  IN  IF args.sampleEvery > 1
        THEN SelectSeq([k \in 1..Len(all) |-> <<k - 1, all[k]>>],
                       LAMBDA x : x[1] % args.sampleEvery = 0)
        ELSE all

\* C9: with an empty list to process main never enters the commit loop,
\* produces no series, writes no file and, when the listing succeeded, exits
\* with code 4, which differs from 0 and 1; code 4 means nothing else.
C9_NoWorkSignal ==
  /\ exitCode = 4 =>
       pc = "exited" /\ err = "none" /\ C9_ListToProcess = <<>>
  /\ C9_ListToProcess = <<>> =>
       /\ pc \in {"main", "clone", "getRev", "listCommits", "exited"}
       /\ rows = <<>>
       /\ i = 0
       /\ DOMAIN blobCache = {}
       /\ \A s \in Shas : catBlobCalls[s] = 0
       /\ ~csvFile.written
       /\ ~htmlFile.written
       /\ (pc = "exited" /\ err = "none" /\ ~args.dryRun /\ exitCode # 2) =>
            exitCode = 4

C9_Witness ==
  pc = "exited" /\ exitCode = 4 /\ args.repo = "E"

C10_HasNul(sha) == \E k \in 1..Len(Blobs[sha]) : Blobs[sha][k] = "NUL"

\* C10: a content with a NUL byte is only ever cached as the all-zero
\* metrics, and an entry with such a content changes none of the totals,
\* whatever its extension.
C10_BinaryIsZero ==
  [][ /\ \A s \in DOMAIN blobCache' :
           C10_HasNul(s) => blobCache'[s] = [codeLoc |-> 0, testCases |-> 0, docLoc |-> 0]
      /\ (/\ pc \in {"entries", "catBlob"}
          /\ ei <= Len(entries)
          /\ entries[ei].sha \in Shas
          /\ C10_HasNul(entries[ei].sha))
         => /\ nonTestLoc' = nonTestLoc
            /\ totalTests' = totalTests
            /\ docLoc' = docLoc
    ]_vars

\* img.py, two lines of Python around a NUL byte, was read and cached
C10_Witness ==
  /\ pc = "entries"
  /\ ei > 1
  /\ entries[ei - 1].sha = "b_bin"
  /\ extOf(entries[ei - 1].path) \in CODE_EXTS
  /\ "b_bin" \in DOMAIN blobCache

\* the entry is a blob with a code or documentation extension whose known
\* size exceeds the ceiling
C11_Oversized(e) ==
  /\ e.type = "blob"
  /\ (extOf(e.path) \in CODE_EXTS \/ extOf(e.path) \in DOC_EXTS)
  /\ e.size # NullSize
  /\ e.size > args.maxFileBytes

\* C11: a code or documentation blob whose known size exceeds maxFileBytes
\* is passed over in one step of the loop: no catBlob call is made, the
\* cache is neither read for a value to add nor written, and none of the
\* three totals changes.
C11_OversizedSkipped ==
  [][ (pc = "entries" /\ ei <= Len(entries) /\ C11_Oversized(entries[ei]))
      => /\ ei' = ei + 1
         /\ pc' = "entries"
         /\ catBlobCalls' = catBlobCalls
         /\ blobCache' = blobCache
         /\ nonTestLoc' = nonTestLoc
         /\ totalTests' = totalTests
         /\ docLoc' = docLoc
    ]_vars

\* docs/GUIDE.md, 24 bytes under a ceiling of 20, was passed over after
\* README.md was counted, and its content was never read
C11_Witness ==
  /\ pc = "entries"
  /\ ei > 1
  /\ C11_Oversized(entries[ei - 1])
  /\ extOf(entries[ei - 1].path) \in DOC_EXTS
  /\ catBlobCalls[entries[ei - 1].sha] = 0
  /\ docLoc = 2

\* the entry is not a blob or has an extension outside both sets
C12_Unrecognised(e) ==
  \/ e.type # "blob"
  \/ (extOf(e.path) \notin CODE_EXTS /\ extOf(e.path) \notin DOC_EXTS)

\* C12: an entry that is not a blob, or whose extension is neither a code
\* nor a documentation extension, is passed over in one step of the loop
\* with the cache, the catBlob calls and the three totals unchanged.
C12_SkippedEntirely ==
  [][ (pc = "entries" /\ ei <= Len(entries) /\ C12_Unrecognised(entries[ei]))
      => /\ ei' = ei + 1
         /\ pc' = "entries"
         /\ blobCache' = blobCache
         /\ catBlobCalls' = catBlobCalls
         /\ <<nonTestLoc', totalTests', docLoc'>> = <<nonTestLoc, totalTests, docLoc>>
    ]_vars

\* the loop went through a tree holding logo.png and the submodule sub.js;
\* neither content identity is in the cache
C12_Witness ==
  /\ pc = "entries"
  /\ ei > Len(entries)
  /\ \E k \in 1..Len(entries) :
       entries[k].type = "blob" /\ extOf(entries[k].path) = <<"p","n","g">>
         /\ entries[k].sha \notin DOMAIN blobCache
  /\ \E k \in 1..Len(entries) :
       entries[k].type # "blob" /\ entries[k].sha \notin DOMAIN blobCache

\* the tree of the integration test: foo.py, test_foo.py and README.md
C17_TinyTree ==
  /\ Len(entries) = 3
  /\ [k \in 1..3 |-> entries[k].path] =
       << <<"f","o","o",".","p","y">>,
          <<"t","e","s","t","_","f","o","o",".","p","y">>,
          <<"R","E","A","D","M","E",".","m","d">> >>
  /\ [k \in 1..3 |-> entries[k].sha] = <<"b_foo", "b_test", "b_readme">>

\* C17: the first call of a run, on the tree foo.py, test_foo.py, README.md
\* with an empty cache, every file under the ceiling and every read
\* answered, returns {nonTestLoc: 2, totalTests: 1, docLoc: 2}; the two code
\* lines of test_foo.py and the absence of tests in foo.py are in the cache
\* and in neither total.
C17_TinyRepoTotals ==
  (/\ pc = "commitDate"
   /\ i = 0
   /\ C17_TinyTree
   /\ \A k \in 1..3 : entries[k].size <= args.maxFileBytes
   /\ nullReads = {})
  => /\ <<nonTestLoc, totalTests, docLoc>> = <<2, 1, 2>>
     /\ blobCache["b_test"].codeLoc = 2
     /\ blobCache["b_foo"].testCases = 0

\* computeMetricsForCommit has returned for the tiny tree, all three
\* contents read
C17_Witness ==
  /\ pc = "commitDate"
  /\ i = 0
  /\ C17_TinyTree
  /\ nullReads = {}
  /\ \A s \in {"b_foo", "b_test", "b_readme"} : catBlobCalls[s] = 1

\* C18: with --dry-run main only returns: no temporary directory and no
\* clone, no commit listed or processed, no blob read, and no CSV, HTML or
\* asset file written; the process ends with exit code 0.
C18_DryRunTouchesNothing ==
  args.dryRun =>
    /\ pc \in {"main", "exited"}
    /\ ~tmpExists
    /\ commits = <<>> /\ rows = <<>> /\ entries = <<>>
    /\ blobCache = <<>>
    /\ \A s \in Shas : catBlobCalls[s] = 0
    /\ csvFile = NoFile /\ htmlFile = NoFile /\ ~assetFile
    /\ exitCode = ExitOk /\ err = "none"

\* a dry run on a URL with --assets has ended
C18_Witness ==
  args.dryRun /\ args.isUrl /\ args.assets /\ pc = "exited"

\* C19: a run on a URL that ends after the clone was made leaves the
\* temporary directory in place exactly when --keep-temp was given.
C19_TempRemovedUnlessKept ==
  (pc = "exited" /\ args.isUrl /\ ~args.dryRun /\ err # "clone")
    => (tmpExists <=> args.keepTemp)

\* the entries of the repository under which a content identity is counted
C14_Paths(s) ==
  {e \in UNION {Range(Repos[args.repo][k].tree) : k \in 1..Len(Repos[args.repo])} :
     e.type = "blob" /\ e.sha = s /\ ~FilteredOut(e, args.maxFileBytes)}

\* the metrics stored when the identity is first met as entry e and read
C14_AsMetBy(s, e) ==
  ComputeBlobMetrics(catBlob(GitOutput(Blobs[s]), args.maxFileBytes), extOf(e.path),
                     extOf(e.path) \in CODE_EXTS, extOf(e.path) \in DOC_EXTS)

\* C14: the metrics stored for a content identity that was read are the
\* ones any other path of that identity would have stored, had it been met
\* first: the stored value depends on the content alone.
C14_StoredIndependentOfPath ==
  [][ \A s \in DOMAIN blobCache' :
        (s \notin DOMAIN blobCache /\ s \notin nullReads')
          => \A e \in C14_Paths(s) : blobCache'[s] = C14_AsMetBy(s, e)
    ]_vars

\* C15: the totals computeMetricsForCommit returns for a tree and an empty
\* cache are those it returns for the tree in the order git lists it,
\* whatever the order in which the entries are processed.
C15_OrderIndependent ==
  (probe.op = "computeMetricsForCommit" /\ probe.applied)
    => probe.totals = computeMetricsForCommit(probe.tree, <<>>, probe.maxFileBytes).tot

\* C16: pathShouldSkip is true exactly when a segment of the path equals a
\* name of the ignored-directory set, letter case left aside.
C16_SkipExactly ==
  (probe.op = "pathShouldSkip" /\ probe.applied)
    => (probe.skip <=>
          \E seg \in Range(splitChar(probe.p, "/")) :
            \E n \in SKIP_DIR_FRAGMENTS : toLowerCase(seg) = toLowerCase(n))

\* the characters a sanitized prefix may hold
C20_Allowed ==
  Range(UpperAlpha) \cup Range(LowerAlpha) \cup Range(Digits) \cup {".", "_", "-"}

\* C20: sanitizeOutputPrefix returns a non-empty string of letters, digits,
\* '.', '_' and '-', other than '.' and '..' and without a path separator;
\* a string that already is such a name is returned unchanged, 'good-name'
\* stays 'good-name' and '../etc/passwd' becomes 'etc_passwd'.
C20_SafePrefix ==
  (probe.op = "sanitizeOutputPrefix" /\ probe.applied)
    => LET p == probe.p
           out == probe.clean
           IsSafe(s) == /\ Len(s) > 0
                        /\ \A k \in 1..Len(s) : s[k] \in C20_Allowed
                        /\ s # <<".">> /\ s # <<".", ".">>
       IN  /\ IsSafe(out)
           /\ \A k \in 1..Len(out) : out[k] \notin {"/", "\\"}
           /\ IsSafe(p) => out = p
           /\ p = <<"g","o","o","d","-","n","a","m","e">> => out = p
           /\ p = <<".",".","/","e","t","c","/","p","a","s","s","w","d">>
                => out = <<"e","t","c","_","p","a","s","s","w","d">>

\* '../etc/passwd' was sanitized
C20_Witness ==
  /\ probe.op = "sanitizeOutputPrefix"
  /\ probe.applied
  /\ probe.p = <<".",".","/","e","t","c","/","p","a","s","s","w","d">>
  /\ probe.clean = <<"e","t","c","_","p","a","s","s","w","d">>

\* C13: with calls in flight on one blobCache, catBlob is still called at
\* most once per content identity, and a value in the cache is never
\* written again.
C13_AtMostOnceInFlight ==
  [][ /\ \A s \in Shas : catBlobCalls'[s] <= 1
      /\ \A s \in DOMAIN blobCache :
           s \in DOMAIN blobCache' /\ blobCache'[s] = blobCache[s]
    ]_vars

\* the commits at positions 0, N, 2N, ... of a list, for the option value
\* as typed; every commit when the value is not a number or below 2
C21_Expected(list, raw) ==
  IF raw.nan \/ raw.v <= 1 THEN list
  ELSE [k \in 1..((Len(list) + raw.v - 1) \div raw.v) |-> list[(k - 1) * raw.v + 1]]

\* C21: when listCommits has returned, the list main goes on with holds the
\* commits at positions 0, N, 2N, ... of the oldest-first list, in that
\* order, for every typed --sample-every N that parses to the option in
\* force (all of them for N = 1, N below 1 or not a number); the list is not
\* changed afterwards and the rows follow it.
C21_SampledCommits ==
  [][ /\ (pc = "listCommits" /\ pc' # "listCommits" /\ err' # "listCommits")
         => \A n \in {NaN} \cup {Num(v) : v \in 0..MaxSampleEvery},
               w \in {NaN} \cup {Num(v) : v \in 0..MaxWindow} :
              parseArgs([args EXCEPT !.sampleEvery = n, !.msgAvgWindow = w]) = args
                => commits' = C21_Expected([k \in 1..Len(Repos[args.repo]) |->
                                              Repos[args.repo][k].id], n)
      /\ pc # "listCommits" => commits' = commits
      /\ \A k \in 1..Len(rows') : rows'[k].shortSha = slice(commits'[k], 0, 12)
    ]_vars

\* with N = 2 the first and the third of three commits were processed
C21_Witness ==
  /\ args.sampleEvery = 2
  /\ pc = "write"
  /\ Len(Repos[args.repo]) = 3
  /\ commits = <<Repos[args.repo][1].id, Repos[args.repo][3].id>>
  /\ Len(rows) = 2

RECURSIVE C22_Resolve(_, _)
\* the path reached from a directory by a relative path
C22_Resolve(dir, rel) ==
  IF rel = <<>> THEN dir
  ELSE IF Head(rel) = ".." THEN C22_Resolve(SubSeq(dir, 1, Len(dir) - 1), Tail(rel))
  ELSE C22_Resolve(Append(dir, Head(rel)), Tail(rel))

C23_LineStarts(text) ==
  {s \in 1..(Len(text) + 1) : s = 1 \/ text[s - 1] = "LF"}

C23_LineEnd(text, s) ==
  IF \E e \in s..Len(text) : text[e] = "LF"
    THEN CHOOSE e \in s..Len(text) : text[e] = "LF" /\ \A j \in s..(e - 1) : text[j] # "LF"
    ELSE Len(text) + 1

\* the line that starts at s has a first non-blank character, and no
\* comment prefix of the extension stands there
C23_IsCode(text, s, ext) ==
  LET e == C23_LineEnd(text, s)
  IN  \E k \in s..(e - 1) :
        /\ text[k] \notin {" ", "TAB", "CR"}
        /\ \A j \in s..(k - 1) : text[j] \in {" ", "TAB", "CR"}
        /\ \A pref \in COMMENT_PREFIXES_BY_EXT(ext) :
             ~ (/\ k + Len(pref) - 1 <= e - 1
                /\ \A j \in 1..Len(pref) : text[k + j - 1] = pref[j])

\* C23: countCodeLoc is the number of lines (ended by LF or CR LF) that
\* hold a non-blank character and do not start, blanks aside, with a
\* comment prefix of the extension; an extension without prefixes counts
\* the non-blank lines; a line with a trailing comment and the lines of a
\* block comment are counted; the texts of the unit tests give 2 and 3.
C23_CodeLines ==
  (probe.op = "countLoc" /\ probe.applied)
    => /\ probe.codeLoc =
            Cardinality({s \in C23_LineStarts(probe.text) :
                           C23_IsCode(probe.text, s, probe.ext)})
       /\ COMMENT_PREFIXES_BY_EXT(probe.ext) = {} => probe.codeLoc = probe.docLoc
       /\ (probe.text = PyText /\ probe.ext = <<"p","y">>) => probe.codeLoc = 2
       /\ (probe.text = JsText /\ probe.ext = <<"j","s">>) => probe.codeLoc = 3
       /\ (probe.text = TrailingText /\ probe.ext = <<"j","s">>) => probe.codeLoc = 2
       /\ (probe.text = BlockText /\ probe.ext = <<"j","s">>) => probe.codeLoc = 3
       /\ (probe.text = SqlText /\ probe.ext = <<"s","q","l">>) => probe.codeLoc = 1

\* a comment after a CR LF line end was left out and the code
\* line before it counted
C23_Witness ==
  /\ probe.op = "countLoc"
  /\ probe.applied
  /\ probe.text = <<"x", "CR", "LF", "#">>
  /\ probe.ext = <<"p","y">>
  /\ probe.codeLoc = 1

\* C24: 0 <= countCodeLoc <= countDocLoc <= number of physical lines (one
\* more than the number of LF), and both counters are 0 for a text without
\* a non-blank character, the empty text included.
C24_CountOrder ==
  (probe.op = "countLoc" /\ probe.applied)
    => LET text == probe.text
       IN  /\ 0 <= probe.codeLoc
           /\ probe.codeLoc <= probe.docLoc
           /\ probe.docLoc <= 1 + Cardinality({k \in 1..Len(text) : text[k] = "LF"})
           /\ (\A k \in 1..Len(text) : text[k] \in {" ", "TAB", "CR", "LF"})
                => (probe.codeLoc = 0 /\ probe.docLoc = 0)

\* a text of blank lines only, and a text where the three numbers differ
C24_Witness ==
  /\ probe.op = "countLoc"
  /\ probe.applied
  /\ \/ probe.text = <<" ", "LF", "CR", "LF">> /\ probe.docLoc = 0
     \/ probe.text = PyText /\ probe.codeLoc = 2 /\ probe.docLoc = 4

\* the hint words, prefixes and suffixes as the claim lists them
C25_Hints ==
  { <<"t","e","s","t">>,
    <<"t","e","s","t","s">>,
    <<"_","_","t","e","s","t","s","_","_">>,
    <<"s","p","e","c">>,
    <<"s","p","e","c","s">>,
    <<"i","n","t","e","g","r","a","t","i","o","n","-","t","e","s","t","s">>,
    <<"e","2","e">>,
    <<"a","c","c","e","p","t","a","n","c","e">> }
C25_Prefixes == { <<"t","e","s","t","_">>, <<"s","p","e","c","_">> }
C25_Suffixes == { <<"_","t","e","s","t">>, <<".","t","e","s","t">>, <<".","s","p","e","c">>, <<"S","p","e","c">>, <<"T","e","s","t","s">> }

\* the position of the last occurrence of a character, 0 when absent
C25_Last(s, c) ==
  IF \E k \in 1..Len(s) : s[k] = c
    THEN CHOOSE k \in 1..Len(s) : s[k] = c /\ \A j \in (k + 1)..Len(s) : s[j] # c
    ELSE 0

\* s holds w at position k
C25_At(s, w, k) ==
  k >= 1 /\ k + Len(w) - 1 <= Len(s) /\ \A j \in 1..Len(w) : s[k + j - 1] = w[j]

\* C25: isTestPath is true exactly when (a) a hint word occurs, letter case
\* aside, in the part of the path before its last slash (the hint words hold
\* no slash, so the occurrence lies in one directory segment), or (b) the
\* file name up to its last dot starts with test_ or spec_ or ends with
\* _test, .test, .spec, Spec or Tests; the file name plays no part in (a).
C25_TestPathExactly ==
  (probe.op = "isTestPath" /\ probe.applied)
    => LET p     == probe.p
           slash == C25_Last(p, "/")
           dirs  == [k \in 1..(IF slash = 0 THEN 0 ELSE slash - 1) |-> LowerChar(p[k])]
           file  == [k \in 1..(Len(p) - slash) |-> p[slash + k]]
           dot   == C25_Last(file, ".")
           base  == IF dot = 0 THEN file ELSE [k \in 1..(dot - 1) |-> file[k]]
           a     == \E h \in C25_Hints : \E k \in 1..Len(dirs) : C25_At(dirs, h, k)
           b     == \/ \E w \in C25_Prefixes : C25_At(base, w, 1)
                    \/ \E w \in C25_Suffixes : C25_At(base, w, Len(base) - Len(w) + 1)
       IN  probe.isTest <=> (a \/ b)

\* src/test is not a test path although its file name is a hint word, and
\* contest/a.py is one because its directory contains a hint word
C25_Witness ==
  /\ probe.op = "isTestPath"
  /\ probe.applied
  /\ \/ probe.p = <<"s","r","c","/","t","e","s","t">> /\ ~probe.isTest
     \/ probe.p = <<"c","o","n","t","e","s","t","/","a",".","p","y">> /\ probe.isTest

\* C26: in a run of main every entry of blobCache stays, with its value;
\* the cache changes only when catBlob returns for an identity that is not
\* in it, and then by that one entry.
C26_CacheOnlyGrows ==
  [][ /\ \A s \in DOMAIN blobCache :
           s \in DOMAIN blobCache' /\ blobCache'[s] = blobCache[s]
      /\ blobCache' # blobCache
           => /\ pc = "catBlob"
              /\ entries[ei].sha \notin DOMAIN blobCache
              /\ DOMAIN blobCache' = DOMAIN blobCache \cup {entries[ei].sha}
    ]_vars

\* the third commit is in progress and the cache holds contents of the
\* first two
C26_Witness ==
  /\ i = 2
  /\ pc = "entries"
  /\ Cardinality(DOMAIN blobCache) >= 4
  /\ "b_test" \in DOMAIN blobCache

\* C27: the totals a call of a run returns are those the call returns on the
\* same tree with an empty cache, whatever the commits processed before;
\* runs in which git failed to answer a blob read are left aside.
C27_MemoTransparent ==
  (/\ pc = "commitDate"
   /\ \A s \in nullReads : catBlob(GitOutput(Blobs[s]), args.maxFileBytes).null)
  => [nonTestLoc |-> nonTestLoc, totalTests |-> totalTests, docLoc |-> docLoc]
       = computeMetricsForCommit(entries, <<>>, args.maxFileBytes).tot

\* the content git gives for an identity is one catBlob turns into null:
\* empty, longer than the ceiling, or with a NUL byte
C28_Unreadable(s) ==
  \/ Blobs[s] = <<>>
  \/ Len(Blobs[s]) > args.maxFileBytes
  \/ \E k \in 1..Len(Blobs[s]) : Blobs[s][k] = "NUL"

\* C28: an identity whose first read of the run gave nothing (git failed,
\* or the content is empty, over the ceiling or binary) is in the cache with
\* the all-zero metrics, and an entry that meets it there leaves the three
\* totals as they are and causes no catBlob call.
C28_NullIsCachedAsZero ==
  [][ /\ \A s \in DOMAIN blobCache' :
           (s \in nullReads' \/ C28_Unreadable(s))
             => blobCache'[s] = [codeLoc |-> 0, testCases |-> 0, docLoc |-> 0]
      /\ \A s \in nullReads' : s \in DOMAIN blobCache'
      /\ (/\ pc = "entries"
          /\ ei <= Len(entries)
          /\ ~FilteredOut(entries[ei], args.maxFileBytes)
          /\ entries[ei].sha \in DOMAIN blobCache
          /\ (entries[ei].sha \in nullReads \/ C28_Unreadable(entries[ei].sha)))
         => /\ catBlobCalls' = catBlobCalls
            /\ pc' = "entries"
            /\ ei' = ei + 1
            /\ <<nonTestLoc', totalTests', docLoc'>> = <<nonTestLoc, totalTests, docLoc>>
    ]_vars

\* latin.py, 18 bytes in the repository and 22 once decoded, passed the size
\* filter under a ceiling of 20 and was read once in the first commit; a
\* later commit has met it again without a read
C28_Witness ==
  /\ args.maxFileBytes = 20
  /\ i >= 1
  /\ pc = "entries"
  /\ ei > 1
  /\ entries[ei - 1].sha = "b_latin"
  /\ catBlobCalls["b_latin"] = 1
  /\ "b_latin" \in nullReads
  /\ nonTestLoc = 0

\* C29: on the same tree listing, contents, ceiling and empty cache the
\* computeMetricsForCommit of metrics.ts and the one of the legacy single
\* file return the same totals and leave the same cache.
C29_LegacyEquivalent ==
  (probe.op = "computeMetricsForCommit" /\ probe.applied)
    => /\ probe.totals = probe.legacyTotals
       /\ probe.cache = probe.legacyCache

\* C30: when --plotly-src is given, the script element of the HTML that main
\* writes loads Plotly from that value, whatever --assets, node_modules and
\* the disk are.
C30_ExplicitSourceWins ==
  (probe.op = "writePlotlyHtml" /\ probe.applied /\ Truthy(probe.args.plotlySrc))
    => probe.script = probe.args.plotlySrc

====
